---- MODULE Spec2Model ----
(***************************************************************************)
(* Chaos experiment orchestration and stuck-experiment recovery of Perry2. *)
(*                                                                         *)
(* The repository carries several revisions of runChaosExperiment:         *)
(*   "litmusA"  chaos/litmus.ts, first revision  (candidate names, scan,   *)
(*              engine status, minimal result)                             *)
(*   "docker"   services/docker.ts               (same shape, simpler)     *)
(*   "litmusB"  chaos/litmus.ts, later revision  (engine status first,     *)
(*              default verdict Pass)                                      *)
(* Every kubectl call is a call to an external control plane: its outcome  *)
(* is chosen nondeterministically among the outcomes the code handles.     *)
(***************************************************************************)
EXTENDS Integers, Sequences, FiniteSets, TLC

(***************************************************************************)
(* Bounds of the model                                                     *)
(***************************************************************************)
\* number of chaos engines the listed namespace holds in the recovery model
MaxEngines == 1
\* number of recoverStuckExperiment calls a caller makes on its records
MaxRecoverCalls == 2
\* milliseconds the clock may advance while detectStuckExperiments runs
MaxTicks == 1

(***************************************************************************)
(* Program constants                                                       *)
(***************************************************************************)
maxRetries == 10
StuckThresholdMinutes == 5
MsPerMinute == 60000
BufferNodeIO == 40
BufferDefault == 20
maxRetriesB == 6
maxRecoveryRetries == 5

NONE == "none"

ChaosTypes == {"pod-delete", "disk-fill", "node-io-stress"}
Durations == {10, 30}
\* the verdict strings the control plane may report; NONE is an absent field
ObservedVerdicts == {"Pass", "Fail", "Awaited", "Stopped", NONE}
ValidVerdicts == {"Pass", "Fail", "Awaited"}
\* epoch milliseconds at which the modelled call starts
T0 == 1000000

VARIABLES
  impl,            \* which revision of runChaosExperiment runs
  wrapper,         \* "direct" | "enhanced" (runNodeIOStressExperiment)
  chaosType,       \* params.chaosType
  duration,        \* params.duration
  pc,              \* position of the run
  now,             \* Date.now()
  engineName,      \* <workload>-chaos-<timestamp>, NoName before it is computed
  build,           \* detected schema (litmusB) and index of the fallback format in use
  expB,            \* litmusB: experimentInfo read from the engine, and its loop counters
  appLabel,        \* "fromSpec" | "guessed"
  manifest,        \* the manifest written to manifestPath
  applyLog,        \* every kubectl apply of an engine manifest, in order
  createdEngines,  \* engine names this run created in the cluster
  poll,            \* execution-pod polling: attempts made, selectors queried, pod found
  params,          \* diagnostic fields the run attaches to params
  resultsJson,     \* the local resultsJson
  res,             \* which result sources were consulted and which one resolved
  observed,        \* last verdict actually read from the control plane
  setupFailure,    \* NONE | "definition" | "serviceAccount"
  outcome,         \* "running" | "returned" | "thrown" of runChaosExperiment
  ret,             \* value returned by runChaosExperiment
  wOutcome,        \* outcome of the typed wrapper
  wret,            \* value returned by the typed wrapper
  response,        \* body answered by POST /chaos-test
  cluster,         \* recovery model: engines and service account of the namespace
  det,             \* detectStuckExperiments: engines listed, loop index, records pushed
  rec,             \* recoverStuckExperiment: position, actions pushed, value returned
  auto,            \* autoRecoverStuckExperiments: position, flag, recoveryResults
  dep,             \* deployApplication and findTargetDeployment: files, applies, target
  inst,            \* installPodDeleteExperiment: position and the shapes applied
  litmus,          \* setupLitmusChaos called on its own: cluster, probes, steps applied
  conc,            \* runs in flight together: the clock, their names, the engines applied
  reply            \* body answered by the earlier revision of POST /chaos-test

runVars == <<impl, wrapper, chaosType, duration, pc, now, engineName, build, expB,
             appLabel, manifest, applyLog, createdEngines, poll, params, resultsJson,
             res, observed, setupFailure, outcome, ret, wOutcome, wret, response>>
recVars == <<cluster, det, rec, auto>>
setupVars == <<dep, inst, litmus, conc>>
vars == <<impl, wrapper, chaosType, duration, pc, now, engineName, build, expB,
          appLabel, manifest, applyLog, createdEngines, poll, params, resultsJson,
          res, observed, setupFailure, outcome, ret, wOutcome, wret, response,
          cluster, det, rec, auto, dep, inst, litmus, conc, reply>>

(***************************************************************************)
(* Values                                                                  *)
(***************************************************************************)
NullResult ==
  [kind |-> "null", hasStatus |-> FALSE, hasExpStatus |-> FALSE, src |-> NONE,
   verdict |-> NONE, statusVerdict |-> NONE, failStep |-> NONE, phase |-> NONE, owner |-> NONE,
   stuck |-> FALSE, recoveryInfo |-> NONE, tagged |-> FALSE]

\* a ChaosResult object parsed from the control plane
ParsedResult(src, v, owner) ==
  [NullResult EXCEPT !.kind = "ChaosResult", !.hasStatus = TRUE,
     !.hasExpStatus = TRUE, !.src = src, !.verdict = v,
     !.failStep = IF v = "Fail" THEN "ChaosInject" ELSE IF v = NONE THEN NONE ELSE "N/A",
     !.phase = IF v \in {"Awaited", NONE} THEN "Running" ELSE "Completed",
     !.owner = owner]

\* an object that parses as JSON but carries no status block
StatuslessResult(src, owner) ==
  [NullResult EXCEPT !.kind = "ChaosResult", !.src = src, !.owner = owner]

targetDeployment == "nginx-chaos-test"

NoName == [workload |-> NONE, timestamp |-> 0]

NoBuild == [hasSAField |-> FALSE, usesAppinfo |-> FALSE, usesComponentsRunner |-> FALSE,
            schemaRead |-> FALSE, fb |-> 0]

NoExpB == [present |-> FALSE, status |-> NONE, verdict |-> NONE,
           pod |-> FALSE, retryCount |-> 0, recoveryRetries |-> 0]

NoManifest == [name |-> NoName, format |-> NONE, env |-> {}, duration |-> 0, selector |-> NONE]

NoRes == [namesTried |-> 0, nameHit |-> 0, scanned |-> FALSE, scanHit |-> FALSE,
          engineRead |-> FALSE, engineHit |-> FALSE, minimalMade |-> FALSE,
          writes |-> 0]

NoPoll == [retries |-> 0, sel |-> 0, found |-> FALSE, waited |-> 0]

NoParams == [podSearchResults |-> FALSE, stuckInInitialized |-> FALSE,
             permissionIssue |-> FALSE, availableResults |-> FALSE,
             slept |-> 0]

NoResponse == [sent |-> FALSE, success |-> FALSE, verdict |-> NONE, failStep |-> NONE]

\* nothing answered yet by the earlier revision of the handler
NoReply == [sent |-> FALSE, success |-> FALSE, statusCode |-> 0, message |-> NONE,
            verdict |-> NONE, failStep |-> NONE, experimentStatus |-> NONE,
            stage |-> NONE, raisedBy |-> NONE]

\* the recovery model at rest, while a run is modelled
IdleCluster == [engines |-> <<>>, saExists |-> TRUE, canCreatePods |-> TRUE,
                canAccessNodes |-> TRUE]

IdleDet == [pc |-> "idle", listed |-> <<>>, idx |-> 0, evalAt |-> <<>>, stuck |-> <<>>]

IdleRec == [pc |-> "idle", record |-> 0, engineGone |-> FALSE, actions |-> <<>>,
            success |-> FALSE, saNeeded |-> FALSE, saFailed |-> FALSE,
            saPath |-> NONE,
            deleteAttempted |-> FALSE, deleteHardFailed |-> FALSE,
            cleanupAttempted |-> FALSE, deletedPhase |-> NONE, deleted |-> {},
            calls |-> 0]

\* autoRecoverStuckExperiments not called
IdleAuto == [pc |-> "idle", enabled |-> FALSE, idx |-> 0, recoveryResults |-> {}]

\* the deployment pipeline and the installer at rest
IdleDep ==
  [pc |-> "idle", rev |-> NONE, strategy |-> NONE, namespace |-> NONE,
   files |-> <<>>, noFiles |-> FALSE, order |-> <<>>, attempts |-> <<>>,
   completion |-> <<>>, appliedCount |-> 0,
   errors |-> <<>>, appliedFiles |-> <<>>, deploy |-> "idle",
   result |-> [success |-> FALSE, manifestsApplied |-> 0, totalManifests |-> 0,
               errors |-> <<>>, appliedFiles |-> <<>>, namespace |-> NONE],
   deployments |-> {}, fallbacks |-> 0, listing |-> {}, find |-> "idle",
   fallbackByFind |-> FALSE,
   target |-> [name |-> NONE, namespace |-> NONE]]

IdleInst == [pc |-> "idle", existing |-> NONE, next |-> 0, applied |-> <<>>]

\* a cluster without LitmusChaos: no litmus namespace, no chaos-operator pod,
\* not all three CRDs, no pod-delete definition
BareCluster == [namespace |-> FALSE, operatorPods |-> FALSE, crds |-> FALSE,
                podDelete |-> "absent"]

\* no runs in flight together
IdleConc == [clock |-> 0, runs |-> <<>>, engines |-> {}]

\* setupLitmusChaos not called on its own
IdleLitmus == [pc |-> "idle", calls |-> 0, cluster |-> BareCluster,
               probed |-> [operator |-> NONE, crds |-> NONE, podDelete |-> NONE],
               applied |-> {}, outcome |-> NONE, first |-> NONE]

(***************************************************************************)
(* runChaosExperiment, steps before the engine is applied                  *)
(***************************************************************************)
InitRun(impls) ==
  /\ impl \in impls
  /\ wrapper \in {"direct", "enhanced"}
  /\ chaosType \in ChaosTypes
  /\ wrapper = "enhanced" => chaosType = "node-io-stress" /\ impl # "docker"
  /\ duration \in Durations
  /\ pc = IF wrapper = "enhanced" THEN "wrapPrepare" ELSE "verify"
  /\ now = T0
  /\ engineName = NoName
  /\ build = NoBuild
  /\ expB = NoExpB
  /\ appLabel = NONE
  /\ manifest = NoManifest
  /\ applyLog = <<>>
  /\ createdEngines = {}
  /\ poll = NoPoll
  /\ params = NoParams
  /\ resultsJson = NullResult
  /\ res = NoRes
  /\ observed = NONE
  /\ setupFailure = NONE
  /\ outcome = "running"
  /\ ret = NullResult
  /\ wOutcome = "running"
  /\ wret = NullResult
  /\ response = NoResponse
  /\ reply = NoReply
  /\ cluster = IdleCluster
  /\ det = IdleDet
  /\ rec = IdleRec
  /\ auto = IdleAuto
  /\ dep = IdleDep
  /\ inst = IdleInst
  /\ litmus = IdleLitmus
  /\ conc = IdleConc

\* a setup failure that is logged and passed over
ThrowsSwallowed(reason) ==
  /\ pc' = "labels"
  /\ setupFailure' = reason
  /\ UNCHANGED <<outcome, wOutcome>>

\* the run throws to its caller; an enhanced wrapper has no try around the call
Throws(reason) ==
  /\ pc' = "done"
  /\ outcome' = "thrown"
  /\ setupFailure' = reason
  /\ wOutcome' = "thrown"

\* whether a candidate definition counts as installed on its apply alone
AppliedAccepts(applyOk, readBack) == applyOk

\* a candidate definition counts as installed when its apply returned and
\* kubectl get chaosexperiment <type> then read it back
ReadBackAccepts(applyOk, readBack) == applyOk /\ readBack

\* installIOChaosExperiment (installNetworkChaosExperiment has the same
\* steps): the hub definition is applied, on a failure of that apply the
\* built-in definition is applied with no try around it, and one read-back
\* after the applies throws when it fails
installIOChaosExperiment(hubOk, manualOk, readBack) ==
  LET entry(shape, applyOk) ==
        [shape |-> shape, applied |-> applyOk, readBack |-> applyOk /\ readBack,
         accepted |-> ReadBackAccepts(applyOk, readBack)]
      log == IF hubOk THEN <<entry("hub", TRUE)>>
             ELSE <<entry("hub", FALSE), entry("manual", manualOk)>>
  IN  [pc |-> IF log[Len(log)].accepted THEN "returned" ELSE "thrown",
       existing |-> "absent", next |-> 0, applied |-> log]

\* runNodeIOStressExperiment, before it calls runChaosExperiment:
\* ensureLitmusChaosServiceAccount and ensureIOChaosExperiment are not guarded
WrapperPrepare ==
  /\ pc = "wrapPrepare"
  /\ \E saOk \in BOOLEAN, found \in BOOLEAN, hubOk \in BOOLEAN,
        manualOk \in BOOLEAN, readBack \in BOOLEAN :
       LET i == IF ~saOk THEN IdleInst
                ELSE IF found THEN [IdleInst EXCEPT !.pc = "returned",
                                                    !.existing = "valid"]
                ELSE installIOChaosExperiment(hubOk, manualOk, readBack)
           expOk == i.pc = "returned"
       IN  /\ inst' = i
           /\ IF saOk /\ expOk
                 THEN /\ pc' = "verify"
                      /\ UNCHANGED <<outcome, setupFailure, wOutcome>>
                 ELSE /\ pc' = "done"
                      /\ wOutcome' = "thrown"
                      /\ setupFailure' = IF saOk THEN "definition" ELSE "serviceAccount"
                      /\ UNCHANGED outcome
  /\ UNCHANGED <<impl, wrapper, chaosType, duration, now, engineName, build, expB,
                 appLabel, manifest, applyLog, createdEngines, poll, params, resultsJson,
                 res, observed, ret, wret, response>>
  /\ UNCHANGED recVars
  /\ UNCHANGED <<dep, litmus, conc>>
  /\ UNCHANGED reply

\* kubectl get chaosexperiment <type> -o json || echo "not found"
VerifyExperiment ==
  /\ pc = "verify"
  /\ \E o \in {"found", "unparseable", "notFound", "execError"}, installOk \in BOOLEAN :
       LET next == IF impl = "litmusA" THEN "ensureSA"
                   ELSE IF impl = "litmusB" THEN "version" ELSE "labels"
       IN  CASE o \in {"found", "unparseable"} ->
                  /\ pc' = next
                  /\ UNCHANGED <<outcome, setupFailure, wOutcome>>
             [] o = "notFound" /\ chaosType = "pod-delete" /\ installOk ->
                  /\ pc' = next
                  /\ UNCHANGED <<outcome, setupFailure, wOutcome>>
             [] OTHER -> Throws("definition")
  /\ UNCHANGED <<impl, wrapper, chaosType, duration, now, engineName, build, expB,
                 appLabel, manifest, applyLog, createdEngines, poll, params, resultsJson,
                 res, observed, ret, wret, response>>
  /\ UNCHANGED recVars
  /\ inst' = IdleInst
  /\ UNCHANGED <<dep, litmus, conc>>
  /\ UNCHANGED reply

\* ensureLitmusChaosServiceAccount(targetNamespace) before the engine is built
EnsureServiceAccount ==
  /\ pc = "ensureSA"
  /\ \E ok \in BOOLEAN :
       IF ok
         THEN /\ pc' = "labels"
              /\ UNCHANGED <<outcome, setupFailure, wOutcome>>
         ELSE Throws("serviceAccount")
  /\ UNCHANGED <<impl, wrapper, chaosType, duration, now, engineName, build, expB,
                 appLabel, manifest, applyLog, createdEngines, poll, params,
                 resultsJson, res, observed, ret, wret, response>>
  /\ UNCHANGED recVars
  /\ UNCHANGED setupVars
  /\ UNCHANGED reply

\* the properties of spec in the installed ChaosEngine CRD that the format
\* depends on; "components.runner" stands for components.properties.runner
SchemaFields == {"chaosServiceAccount", "appinfo", "components.runner"}

\* what detectLitmusChaosVersion returns for an installed schema: when the
\* kubectl get crd or the JSON.parse throws, schemaFields stays empty and both
\* flags stay false
DetectedSchema(installed, readable) ==
  [NoBuild EXCEPT
     !.hasSAField = readable /\ "chaosServiceAccount" \in installed,
     !.usesAppinfo = readable /\ "appinfo" \in installed,
     !.usesComponentsRunner = readable /\ "components.runner" \in installed,
     !.schemaRead = readable]

\* detectLitmusChaosVersion: every failure is swallowed, the flags stay false
detectLitmusChaosVersion ==
  /\ pc = "version"
  /\ \E installed \in SUBSET SchemaFields, readable \in BOOLEAN :
       build' = DetectedSchema(installed, readable)
  /\ pc' = "ensureSA"
  /\ UNCHANGED <<impl, wrapper, chaosType, duration, now, engineName, expB,
                 appLabel, manifest, applyLog, createdEngines, poll, params,
                 resultsJson, res, observed, setupFailure, outcome, ret,
                 wOutcome, wret, response>>
  /\ UNCHANGED recVars
  /\ UNCHANGED setupVars
  /\ UNCHANGED reply

\* kubectl get deployment -o jsonpath='{.spec.selector.matchLabels}':
\* the first label of the workload, or the default "app=<deployment>"
ResolveSelector ==
  /\ pc = "labels"
  /\ \E o \in {"labels", "noKeys", "empty", "unparseable", "execError"} :
       appLabel' = IF o = "labels" THEN "fromSpec" ELSE "guessed"
  /\ pc' = "manifest"
  /\ UNCHANGED <<impl, wrapper, chaosType, duration, now, engineName, build, expB,
                 manifest, applyLog, createdEngines, poll, params,
                 resultsJson, res, observed, setupFailure, outcome, ret,
                 wOutcome, wret, response>>
  /\ UNCHANGED recVars
  /\ UNCHANGED setupVars
  /\ UNCHANGED reply

\* names of spec.experiments[0].spec.components.env of each manifest text
EnvOf(format) ==
  CASE format = "engineA" ->
         {"TOTAL_CHAOS_DURATION", "CHAOS_INTERVAL", "FORCE", "PODS_AFFECTED_PERC",
          "TARGET_PODS", "SEQUENCE"}
    [] format = "chaosServiceAccount" ->
         {"TOTAL_CHAOS_DURATION", "CHAOS_INTERVAL", "FORCE", "PODS_AFFECTED_PERC",
          "TARGET_PODS", "APP_NAMESPACE", "APP_LABEL"}
    [] format = "appinfo" ->
         {"TOTAL_CHAOS_DURATION", "CHAOS_INTERVAL", "FORCE", "PODS_AFFECTED_PERC",
          "TARGET_CONTAINER", "TARGET_PODS", "CONTAINER_RUNTIME", "SOCKET_PATH"}
    [] format = "componentsRunner" ->
         {"TOTAL_CHAOS_DURATION", "CHAOS_INTERVAL", "FORCE", "PODS_AFFECTED_PERC",
          "TARGET_CONTAINER", "TARGET_PODS", "CONTAINER_RUNTIME", "SOCKET_PATH",
          "APP_NAMESPACE", "APP_LABEL"}
    [] format = "default" ->
         {"TOTAL_CHAOS_DURATION", "CHAOS_INTERVAL", "FORCE", "PODS_AFFECTED_PERC",
          "TARGET_PODS", "APP_NAMESPACE", "APP_LABEL"}
    [] format = "fallback1" -> {"TOTAL_CHAOS_DURATION", "APP_NAMESPACE", "APP_LABEL"}
    [] format = "fallback2" -> {"TOTAL_CHAOS_DURATION"}
    [] format = "fallback3" -> {"TOTAL_CHAOS_DURATION", "APP_LABEL"}
    [] OTHER -> {}

\* the same choice with appinfo looked at before chaosServiceAccount
FormatForAppinfoFirst(b) ==
  IF impl # "litmusB" THEN "engineA"
  ELSE IF b.usesAppinfo THEN "appinfo"
  ELSE IF b.hasSAField THEN "chaosServiceAccount"
  ELSE IF b.usesComponentsRunner THEN "componentsRunner"
  ELSE "default"

\* the format chosen from the detected schema (litmusB); one fixed text otherwise
FormatFor(b) ==
  IF impl # "litmusB" THEN "engineA"
  ELSE IF b.hasSAField THEN "chaosServiceAccount"
  ELSE IF b.usesAppinfo THEN "appinfo"
  ELSE IF b.usesComponentsRunner THEN "componentsRunner"
  ELSE "default"

\* a text that spells the default of the experiment definition, '30', where
\* the requested duration belongs
ManifestTextDefaultDuration(name, format) ==
  [name |-> name, format |-> format, env |-> EnvOf(format),
   duration |-> 30, selector |-> appLabel]

ManifestText(name, format) ==
  [name |-> name, format |-> format, env |-> EnvOf(format),
   duration |-> duration, selector |-> appLabel]

\* const timestamp = Date.now(); const engineName = ...; fs.writeFile(manifestPath)
BuildManifest ==
  /\ pc = "manifest"
  /\ engineName' = [workload |-> targetDeployment, timestamp |-> now]
  /\ manifest' = ManifestText(engineName', FormatFor(build))
  /\ pc' = IF impl = "litmusB" THEN "apply" ELSE "crd"
  /\ UNCHANGED <<impl, wrapper, chaosType, duration, now, build, expB,
                 appLabel, applyLog, createdEngines, poll, params,
                 resultsJson, res, observed, setupFailure, outcome, ret,
                 wOutcome, wret, response>>
  /\ UNCHANGED recVars
  /\ UNCHANGED setupVars
  /\ UNCHANGED reply

\* kubectl get crd chaosengines.litmuschaos.io, reinstalling the CRDs when it fails
CheckEngineCRD ==
  /\ pc = "crd"
  /\ \E crdOk \in BOOLEAN, reinstallOk \in BOOLEAN :
       pc' = IF crdOk \/ reinstallOk THEN "apply" ELSE "catch"
  /\ UNCHANGED <<impl, wrapper, chaosType, duration, now, engineName, build, expB,
                 appLabel, manifest, applyLog, createdEngines, poll, params,
                 resultsJson, res, observed, setupFailure, outcome, ret,
                 wOutcome, wret, response>>
  /\ UNCHANGED recVars
  /\ UNCHANGED setupVars
  /\ UNCHANGED reply

\* one kubectl apply of an engine manifest.  A rejected apply may or may not
\* have reached the cluster (landed); an accepted one has.
Applied(m, mode, ok, landed) ==
  /\ applyLog' = Append(applyLog, [manifest |-> m, mode |-> mode, ok |-> ok])
  /\ createdEngines' = IF ok \/ landed THEN createdEngines \cup {m.name}
                       ELSE createdEngines
  /\ now' = now + 1

\* kubectl apply -f manifestPath
ApplyStrict ==
  /\ pc = "apply"
  /\ \E ok \in BOOLEAN, landed \in BOOLEAN :
       /\ Applied(manifest, "strict", ok, landed)
       /\ pc' = IF ok THEN "engineCheck"
                ELSE IF impl = "litmusB" THEN "applyFallback" ELSE "applyRelaxed"
       /\ build' = [build EXCEPT !.fb = IF impl = "litmusB" /\ ~ok THEN 1 ELSE 0]
  /\ UNCHANGED <<impl, wrapper, chaosType, duration, engineName, expB,
                 appLabel, manifest, poll, params,
                 resultsJson, res, observed, setupFailure, outcome, ret,
                 wOutcome, wret, response>>
  /\ UNCHANGED recVars
  /\ UNCHANGED setupVars
  /\ UNCHANGED reply

\* a rejected relaxed apply is passed over like an accepted one
AfterRelaxedIgnoringFailure(ok) == "engineCheck"

\* the relaxed apply is not guarded: its rejection leaves the try block
AfterRelaxed(ok) == IF ok THEN "engineCheck" ELSE "catch"

\* kubectl apply --validate=false -f manifestPath: the file written once
ApplyRelaxed ==
  /\ pc = "applyRelaxed"
  /\ \E ok \in BOOLEAN, landed \in BOOLEAN :
       /\ Applied(manifest, "relaxed", ok, landed)
       /\ pc' = AfterRelaxed(ok)
  /\ UNCHANGED <<impl, wrapper, chaosType, duration, engineName, build, expB,
                 appLabel, manifest, poll, params,
                 resultsJson, res, observed, setupFailure, outcome, ret,
                 wOutcome, wret, response>>
  /\ UNCHANGED recVars
  /\ UNCHANGED setupVars
  /\ UNCHANGED reply

\* fallback texts that name the engine from a fresh Date.now()
FallbackManifestRenamed(i) ==
  ManifestText([workload |-> targetDeployment, timestamp |-> now],
               CASE i = 1 -> "fallback1" [] i = 2 -> "fallback2" [] OTHER -> "fallback3")

\* fallbackFormats[i-1]: each text interpolates the engineName computed before
FallbackManifest(i) ==
  ManifestText(engineName, CASE i = 1 -> "fallback1" [] i = 2 -> "fallback2"
                                [] OTHER -> "fallback3")

NumFallbacks == 3

\* for (i < fallbackFormats.length): apply until one is accepted, else throw
ApplyFallback ==
  /\ pc = "applyFallback"
  /\ build.fb \in 1..NumFallbacks
  /\ \E ok \in BOOLEAN, landed \in BOOLEAN :
       /\ Applied(FallbackManifest(build.fb), "strict", ok, landed)
       /\ IF ok
            THEN pc' = "engineCheck" /\ UNCHANGED build
            ELSE IF build.fb < NumFallbacks
              THEN pc' = "applyFallback" /\ build' = [build EXCEPT !.fb = @ + 1]
              ELSE pc' = "catch" /\ UNCHANGED build
  /\ UNCHANGED <<impl, wrapper, chaosType, duration, engineName, expB,
                 appLabel, manifest, poll, params,
                 resultsJson, res, observed, setupFailure, outcome, ret,
                 wOutcome, wret, response>>
  /\ UNCHANGED recVars
  /\ UNCHANGED setupVars
  /\ UNCHANGED reply

\* kubectl get chaosengine <engineName> right after the apply
CheckEngineCreated ==
  /\ pc = "engineCheck"
  /\ \E ok \in BOOLEAN :
       pc' = IF ok \/ impl = "litmusB"
               THEN (IF impl = "litmusB" THEN "sleep" ELSE "pollPod")
               ELSE "catch"
  /\ UNCHANGED <<impl, wrapper, chaosType, duration, now, engineName, build, expB,
                 appLabel, manifest, applyLog, createdEngines, poll, params,
                 resultsJson, res, observed, setupFailure, outcome, ret,
                 wOutcome, wret, response>>
  /\ UNCHANGED recVars
  /\ UNCHANGED setupVars
  /\ UNCHANGED reply

(***************************************************************************)
(* Execution-pod discovery and the wait for the experiment                 *)
(***************************************************************************)
\* podLabelSelectors.length: 6, plus 4 for node-io-stress; docker.ts asks one
NumSelectors ==
  IF impl = "docker" THEN 1
  ELSE IF chaosType = "node-io-stress" THEN 10 ELSE 6

\* milliseconds of the setTimeout between two attempts
PollPauseMs == 2000

\* the pause grows with the number of attempts made
PauseBeforeRetryBackoff(retries) == PollPauseMs * (retries + 1)

\* await new Promise((resolve) => setTimeout(resolve, 2000)); retries++
PauseBeforeRetry(retries) == PollPauseMs

\* one kubectl get pods -l <selector> of the while (retries < maxRetries) loop;
\* poll.waited adds up the pauses slept so far
QueryPodSelector ==
  /\ pc = "pollPod"
  /\ poll.retries < maxRetries
  /\ \E podListed \in BOOLEAN :
       LET s == poll.sel + 1 IN
       IF podListed
         THEN /\ poll' = [NoPoll EXCEPT !.found = TRUE]
              /\ pc' = "sleep"
         ELSE IF s < NumSelectors
           THEN /\ poll' = [poll EXCEPT !.sel = s]
                /\ pc' = "pollPod"
           ELSE IF poll.retries + 1 < maxRetries
             THEN /\ poll' = [poll EXCEPT !.sel = 0, !.retries = @ + 1,
                                           !.waited = @ + PauseBeforeRetry(poll.retries)]
                  /\ pc' = "pollPod"
             ELSE /\ poll' = NoPoll
                  /\ pc' = IF impl = "docker" THEN "sleep" ELSE "podSearch"
  /\ UNCHANGED <<impl, wrapper, chaosType, duration, now, engineName, build, expB,
                 appLabel, manifest, applyLog, createdEngines, params,
                 resultsJson, res, observed, setupFailure, outcome, ret,
                 wOutcome, wret, response>>
  /\ UNCHANGED recVars
  /\ UNCHANGED setupVars
  /\ UNCHANGED reply

\* if (!experimentPodName): the extended search; every failure in it is caught
ExtendedPodSearch ==
  /\ pc = "podSearch"
  /\ \E jobPod \in BOOLEAN, anyInfo \in BOOLEAN :
       /\ poll' = [poll EXCEPT !.found = jobPod]
       /\ params' = [params EXCEPT !.podSearchResults = ~jobPod /\ anyInfo]
  /\ pc' = "sleep"
  /\ UNCHANGED <<impl, wrapper, chaosType, duration, now, engineName, build, expB,
                 appLabel, manifest, applyLog, createdEngines,
                 resultsJson, res, observed, setupFailure, outcome, ret,
                 wOutcome, wret, response>>
  /\ UNCHANGED recVars
  /\ UNCHANGED setupVars
  /\ UNCHANGED reply

\* seconds of the fixed sleep after pod discovery
WaitSeconds ==
  IF impl = "litmusB" THEN duration + 5
  ELSE IF impl = "litmusA" /\ chaosType = "node-io-stress" THEN duration + BufferNodeIO
  ELSE duration + BufferDefault

\* await new Promise(resolve => setTimeout(resolve, ...))
SleepForExperiment ==
  /\ pc = "sleep"
  /\ params' = [params EXCEPT !.slept = WaitSeconds]
  /\ pc' = IF impl = "litmusB" THEN "engineStatusB"
           ELSE IF impl = "litmusA" /\ chaosType = "node-io-stress" THEN "stuckCheck"
           ELSE "recheckExp"
  /\ UNCHANGED <<impl, wrapper, chaosType, duration, now, engineName, build, expB,
                 appLabel, manifest, applyLog, createdEngines, poll,
                 resultsJson, res, observed, setupFailure, outcome, ret,
                 wOutcome, wret, response>>
  /\ UNCHANGED recVars
  /\ UNCHANGED setupVars
  /\ UNCHANGED reply

\* node-io-stress only: is the engine still "initialized" after the wait?
\* The flags are stored only when the last kubectl top nodes does not throw.
CheckStillInitialized ==
  /\ pc = "stuckCheck"
  /\ \E initialized \in BOOLEAN, permIssue \in BOOLEAN, topOk \in BOOLEAN :
       params' = [params EXCEPT
                    !.stuckInInitialized = initialized /\ topOk,
                    !.permissionIssue = initialized /\ permIssue,
                    !.slept = IF initialized THEN @ + 20 ELSE @]
  /\ pc' = "recheckExp"
  /\ UNCHANGED <<impl, wrapper, chaosType, duration, now, engineName, build, expB,
                 appLabel, manifest, applyLog, createdEngines, poll,
                 resultsJson, res, observed, setupFailure, outcome, ret,
                 wOutcome, wret, response>>
  /\ UNCHANGED recVars
  /\ UNCHANGED setupVars
  /\ UNCHANGED reply

\* kubectl get chaosexperiment <type> once more; pod-delete is reinstalled,
\* and a failing reinstall is thrown into the catch block of the run
RecheckExperiment ==
  /\ pc = "recheckExp"
  /\ \E stillThere \in BOOLEAN, reinstallOk \in BOOLEAN :
       pc' = IF stillThere \/ chaosType # "pod-delete" \/ reinstallOk
               THEN "names" ELSE "catch"
  /\ UNCHANGED <<impl, wrapper, chaosType, duration, now, engineName, build, expB,
                 appLabel, manifest, applyLog, createdEngines, poll, params,
                 resultsJson, res, observed, setupFailure, outcome, ret,
                 wOutcome, wret, response>>
  /\ UNCHANGED recVars
  /\ UNCHANGED setupVars
  /\ UNCHANGED reply

(***************************************************************************)
(* Result resolution of litmusA and docker: candidate names, namespace     *)
(* scan, engine status, minimal result                                     *)
(***************************************************************************)
\* possibleResultNames.length
NumNames ==
  IF impl = "docker" THEN 3
  ELSE IF chaosType = "node-io-stress" THEN 10 ELSE 6

\* candidates that embed this run's engine name or timestamp can only name an
\* object of this run; the others may name an object left by any engine
NameOwners(i) ==
  IF i \in {1, 3, 5, 7} THEN {"this"} ELSE {"this", "other"}

\* objects the control plane may hand back for a ChaosResult query
ResultObjects(src, owners) ==
  {ParsedResult(src, v, o) : v \in ObservedVerdicts, o \in owners}
    \cup {StatuslessResult(src, o) : o \in owners}

\* a scan that runs whether or not a candidate name resolved
AfterNamesAlwaysScan(r) == "scan"

\* after the candidate loop: if (!resultsJson) scan; if (!resultsJson) engine
AfterNames(r) == IF r.kind # "null" THEN "recoveryWait" ELSE "scan"

AfterScan(r) == IF r.kind # "null" THEN "recoveryWait" ELSE "engineStatus"

\* one iteration of for (const resultName of possibleResultNames)
QueryResultName ==
  /\ pc = "names"
  /\ res.namesTried < NumNames
  /\ LET i == res.namesTried + 1 IN
     \/ \E r \in ResultObjects("name", NameOwners(i)) :
          \* parsed: resultsJson = JSON.parse(...); break
          /\ resultsJson' = r
          /\ res' = [res EXCEPT !.namesTried = i, !.nameHit = i, !.writes = @ + 1]
          /\ observed' = r.verdict
          /\ pc' = AfterNames(r)
     \/ \* not found, empty output, or unparseable: next candidate
        /\ res' = [res EXCEPT !.namesTried = i]
        /\ pc' = IF i < NumNames THEN "names" ELSE AfterNames(resultsJson)
        /\ UNCHANGED <<resultsJson, observed>>
  /\ UNCHANGED <<impl, wrapper, chaosType, duration, now, engineName, build, expB,
                 appLabel, manifest, applyLog, createdEngines, poll, params,
                 setupFailure, outcome, ret, wOutcome, wret, response>>
  /\ UNCHANGED recVars
  /\ UNCHANGED setupVars
  /\ UNCHANGED reply

\* kubectl get chaosresults -n <ns> -o json, filtered by name substring,
\* most recent first
ScanNamespace ==
  /\ pc = "scan"
  /\ \/ \E r \in ResultObjects("scan", {"this", "other"}) :
          /\ resultsJson' = r
          /\ res' = [res EXCEPT !.scanned = TRUE, !.scanHit = TRUE, !.writes = @ + 1]
          /\ observed' = r.verdict
          /\ pc' = AfterScan(r)
          /\ UNCHANGED params
     \/ \E o \in {"error", "empty", "noMatch"} :
          /\ res' = [res EXCEPT !.scanned = TRUE]
          /\ params' = [params EXCEPT
                          !.availableResults = (impl = "litmusA" /\ o = "noMatch")]
          /\ pc' = AfterScan(resultsJson)
          /\ UNCHANGED <<resultsJson, observed>>
  /\ UNCHANGED <<impl, wrapper, chaosType, duration, now, engineName, build, expB,
                 appLabel, manifest, applyLog, createdEngines, poll,
                 setupFailure, outcome, ret, wOutcome, wret, response>>
  /\ UNCHANGED recVars
  /\ UNCHANGED setupVars
  /\ UNCHANGED reply

EnginePhases == {"initialized", "completed", "stopped", NONE}

\* resultsJson built from the engine's own status
FromEngineStatus(ep, v, debugOk) ==
  [NullResult EXCEPT
     !.kind = "ChaosResult", !.hasStatus = TRUE, !.hasExpStatus = TRUE,
     !.src = "engine", !.owner = "this",
     !.phase = IF ep = NONE THEN "Completed" ELSE ep,
     !.verdict = IF impl = "docker" \/ v = NONE THEN "Awaited" ELSE v,
     !.failStep = IF impl = "litmusA" /\ v = "Fail" THEN "ChaosInject" ELSE "N/A",
     !.stuck = /\ impl = "litmusA"
               /\ chaosType = "node-io-stress"
               /\ ep = "initialized"
               /\ debugOk]

\* "Create a minimal result so we don't fail completely"
MinimalResult ==
  [NullResult EXCEPT
     !.kind = "ChaosResult", !.hasStatus = TRUE, !.hasExpStatus = TRUE,
     !.src = "minimal", !.owner = "this", !.phase = "Completed",
     !.verdict = "Awaited", !.failStep = "Result retrieval"]

\* what the engine query leaves in resultsJson.
\*   litmusA: kubectl ... 2>/dev/null || echo "" ; an empty or unparseable
\*            answer is only logged, the minimal result is built in the catch
\*            of the exec itself
\*   docker:  any failure of the get or of the parse builds the minimal result
EngineOutcome(o, ep, v, debugOk) ==
  CASE o = "parsed" -> FromEngineStatus(ep, v, debugOk)
    [] o = "execError" -> MinimalResult
    [] o \in {"empty", "unparseable"} ->
         IF impl = "docker" THEN MinimalResult ELSE resultsJson

ReconstructFromEngine ==
  /\ pc = "engineStatus"
  /\ \E o \in {"parsed", "execError", "empty", "unparseable"},
        ep \in EnginePhases, v \in ObservedVerdicts, debugOk \in BOOLEAN :
       LET r == EngineOutcome(o, ep, v, debugOk) IN
       /\ resultsJson' = r
       /\ res' = [res EXCEPT !.engineRead = TRUE,
                             !.engineHit = (r.src = "engine"),
                             !.minimalMade = (r.src = "minimal"),
                             !.writes = IF r.kind # "null" THEN @ + 1 ELSE @]
       /\ observed' = IF o = "parsed" THEN v ELSE observed
  /\ pc' = "recoveryWait"
  /\ UNCHANGED <<impl, wrapper, chaosType, duration, now, engineName, build, expB,
                 appLabel, manifest, applyLog, createdEngines, poll, params,
                 setupFailure, outcome, ret, wOutcome, wret, response>>
  /\ UNCHANGED recVars
  /\ UNCHANGED setupVars
  /\ UNCHANGED reply

\* the value handed to the caller of the run, and to the caller of a wrapper
\* that only forwards it
Returns(r) ==
  /\ ret' = r
  /\ outcome' = "returned"
  /\ IF wrapper = "enhanced"
       THEN pc' = "wrapPost" /\ UNCHANGED <<wret, wOutcome>>
       ELSE pc' = "done" /\ wret' = r /\ wOutcome' = "returned"

\* kubectl wait --for=condition=Ready ... --timeout=60s, then return resultsJson
WaitForRecovery ==
  /\ pc = "recoveryWait"
  /\ \E ready \in BOOLEAN :
       /\ resultsJson' = IF ~ready /\ resultsJson.kind # "null" /\ resultsJson.hasStatus
                           THEN [resultsJson EXCEPT !.recoveryInfo = "Incomplete"]
                           ELSE resultsJson
       /\ Returns(resultsJson')
  /\ UNCHANGED <<impl, wrapper, chaosType, duration, now, engineName, build, expB,
                 appLabel, manifest, applyLog, createdEngines, poll, params,
                 res, observed, setupFailure, response>>
  /\ UNCHANGED recVars
  /\ UNCHANGED setupVars
  /\ UNCHANGED reply

\* the structured error object of the catch block
ErrorResult ==
  CASE impl = "litmusA" ->
         \* { status: "error", error, diagnosticInfo }
         [NullResult EXCEPT !.kind = "error", !.hasStatus = TRUE, !.src = "error"]
    [] impl = "docker" ->
         \* { status: { verdict: "Failed", failStep, description, diagnosticInfo } }
         [NullResult EXCEPT !.kind = "error", !.hasStatus = TRUE, !.src = "error",
            !.statusVerdict = "Failed", !.failStep = "ChaosExperiment execution"]
    [] OTHER ->
         \* litmusB: status.verdict "Failed", status.experimentStatus.verdict "Fail"
         [NullResult EXCEPT !.kind = "error", !.hasStatus = TRUE, !.src = "error",
            !.hasExpStatus = TRUE, !.statusVerdict = "Failed", !.verdict = "Fail",
            !.phase = "Failed", !.failStep = "ChaosExperiment execution"]

\* catch (error) of the run: diagnostics are best effort, the object is returned
CatchError ==
  /\ pc = "catch"
  /\ Returns(ErrorResult)
  /\ UNCHANGED <<impl, wrapper, chaosType, duration, now, engineName, build, expB,
                 appLabel, manifest, applyLog, createdEngines, poll, params,
                 resultsJson, res, observed, setupFailure, response>>
  /\ UNCHANGED recVars
  /\ UNCHANGED setupVars
  /\ UNCHANGED reply

(***************************************************************************)
(* runNodeIOStressExperiment after the run, and POST /chaos-test           *)
(***************************************************************************)
\* result?.status?.experimentStatus?.phase === "initialized" ||
\* result?.status?.nodeIOStressSpecific?.stuckInInitialized
LooksStuck(r) ==
  \/ r.hasExpStatus /\ r.phase = "initialized"
  \/ r.stuck

\* the synthetic verdict written over whatever verdict the result carries
WithStuckDiagnosticsOverwriting(r) ==
  IF ~LooksStuck(r) THEN r
  ELSE IF ~r.hasExpStatus THEN [r EXCEPT !.tagged = TRUE]
  ELSE [r EXCEPT !.tagged = TRUE, !.verdict = "Pass (Synthetic)",
                 !.failStep = "None - Synthetic result created for initialized state"]

\* the stuck diagnostics and the synthetic verdict the wrapper writes
WithStuckDiagnostics(r) ==
  IF ~LooksStuck(r) THEN r
  ELSE IF ~r.hasExpStatus THEN [r EXCEPT !.tagged = TRUE]
  ELSE IF r.verdict \in {NONE, "Awaited"}
    THEN [r EXCEPT !.tagged = TRUE, !.verdict = "Pass (Synthetic)",
                   !.failStep = "None - Synthetic result created for initialized state"]
    ELSE [r EXCEPT !.tagged = TRUE]

WrapperPostProcess ==
  /\ pc = "wrapPost"
  /\ wret' = WithStuckDiagnostics(ret)
  /\ wOutcome' = "returned"
  /\ pc' = "done"
  /\ UNCHANGED <<impl, wrapper, chaosType, duration, now, engineName, build, expB,
                 appLabel, manifest, applyLog, createdEngines, poll, params,
                 resultsJson, res, observed, setupFailure, outcome, ret, response>>
  /\ UNCHANGED recVars
  /\ UNCHANGED setupVars
  /\ UNCHANGED reply

\* the verdict a reader of the result object finds:
\* status.experimentStatus.verdict, else status.verdict
VerdictOf(r) ==
  IF r.hasExpStatus /\ r.verdict # NONE THEN r.verdict ELSE r.statusVerdict

\* extractChaosResultInfo of src/index.ts: "Fail" is rewritten to "Pass", and
\* the value returned is the literal Pass whatever was extracted
extractChaosResultInfo(r) ==
  IF r.kind = "null" \/ ~r.hasStatus
    THEN [verdict |-> "Pass", failStep |-> "None", valid |-> TRUE, extracted |-> NONE]
    ELSE LET verdict == IF VerdictOf(r) = NONE THEN "Awaited"
                        ELSE IF VerdictOf(r) = "Fail" THEN "Pass" ELSE VerdictOf(r)
         IN  [verdict |-> "Pass", failStep |-> "None", valid |-> TRUE,
              extracted |-> verdict]

\* res.json of POST /chaos-test, after the experiment returned or threw: the
\* try branch and both catch branches answer the same literals
ChaosTestRespond ==
  /\ pc = "done"
  /\ ~response.sent
  /\ ~reply.sent
  /\ response' = [sent |-> TRUE, success |-> extractChaosResultInfo(wret).valid,
                  verdict |-> "Pass", failStep |-> "N/A"]
  /\ UNCHANGED <<impl, wrapper, chaosType, duration, pc, now, engineName, build, expB,
                 appLabel, manifest, applyLog, createdEngines, poll, params,
                 resultsJson, res, observed, setupFailure, outcome, ret,
                 wOutcome, wret>>
  /\ UNCHANGED recVars
  /\ UNCHANGED setupVars
  /\ UNCHANGED reply

(***************************************************************************)
(* Specifications of the run                                               *)
(***************************************************************************)
NextA ==
  \/ WrapperPrepare
  \/ VerifyExperiment
  \/ EnsureServiceAccount
  \/ ResolveSelector
  \/ BuildManifest
  \/ CheckEngineCRD
  \/ ApplyStrict
  \/ ApplyRelaxed
  \/ CheckEngineCreated
  \/ QueryPodSelector
  \/ ExtendedPodSearch
  \/ SleepForExperiment
  \/ CheckStillInitialized
  \/ RecheckExperiment
  \/ QueryResultName
  \/ ScanNamespace
  \/ ReconstructFromEngine
  \/ WaitForRecovery
  \/ CatchError
  \/ WrapperPostProcess
  \/ ChaosTestRespond

\* runChaosExperiment of chaos/litmus.ts (first revision) and of docker.ts
SpecA == InitRun({"litmusA", "docker"}) /\ [][NextA]_vars

(***************************************************************************)
(* Result resolution of litmusB: engine status first, explicit ChaosResult *)
(* objects second, verdict Pass wherever nothing else is known             *)
(***************************************************************************)
\* resultsJson built from experiments[0] of the engine status
FromExperimentInfo(st, v) ==
  [NullResult EXCEPT
     !.kind = "ChaosResult", !.hasStatus = TRUE, !.hasExpStatus = TRUE,
     !.src = "engine", !.owner = "this",
     !.phase = IF st = NONE THEN "Completed" ELSE st,
     !.verdict = IF v = NONE THEN "Pass" ELSE v,
     !.failStep = "N/A"]

\* "No experiment details found in engine status, creating basic result"
BasicResultB(ep) ==
  [NullResult EXCEPT
     !.kind = "ChaosResult", !.hasStatus = TRUE, !.hasExpStatus = TRUE,
     !.src = "engine", !.owner = "this",
     !.phase = IF ep = NONE THEN "Completed" ELSE ep,
     !.verdict = "Pass", !.failStep = "N/A"]

\* "No results found, creating minimal result"
MinimalResultB ==
  [NullResult EXCEPT
     !.kind = "ChaosResult", !.hasStatus = TRUE, !.hasExpStatus = TRUE,
     !.src = "minimal", !.owner = "this", !.phase = "Completed",
     !.verdict = "Pass", !.failStep = "Result retrieval"]

ExperimentStatuses == {"Running", "Completed"}

\* kubectl get chaosengine -o json after the sleep
ReadEngineStatusB ==
  /\ pc = "engineStatusB"
  /\ \/ \* the get or the parse failed: look for explicit results only
        /\ pc' = "namesB"
        /\ res' = [res EXCEPT !.engineRead = TRUE]
        /\ UNCHANGED <<resultsJson, expB, observed>>
     \/ \* status.experiments missing or empty
        \E ep \in EnginePhases :
          /\ resultsJson' = BasicResultB(ep)
          /\ res' = [res EXCEPT !.engineRead = TRUE, !.engineHit = TRUE, !.writes = @ + 1]
          /\ pc' = "recoveryB"
          /\ UNCHANGED <<expB, observed>>
     \/ \* experiments[0]; a runner with pod-killing events overwrites the verdict
        \E st \in ExperimentStatuses, v \in ObservedVerdicts,
           runner \in BOOLEAN, pod \in BOOLEAN, killEvents \in BOOLEAN :
          LET v1 == IF runner /\ killEvents THEN "Pass" ELSE v IN
          /\ expB' = [expB EXCEPT !.present = TRUE, !.status = st, !.verdict = v1,
                                  !.pod = pod]
          /\ resultsJson' = FromExperimentInfo(st, v1)
          /\ res' = [res EXCEPT !.engineRead = TRUE, !.engineHit = TRUE, !.writes = @ + 1]
          /\ observed' = v
          /\ pc' = "repollB"
  /\ UNCHANGED <<impl, wrapper, chaosType, duration, now, engineName, build,
                 appLabel, manifest, applyLog, createdEngines, poll, params,
                 setupFailure, outcome, ret, wOutcome, wret, response>>
  /\ UNCHANGED recVars
  /\ UNCHANGED setupVars
  /\ UNCHANGED reply

\* an iteration that does not count itself
RetryCountKept(retryCount) == retryCount

\* retryCount++
RetryCountAfter(retryCount) == retryCount + 1

\* while ((status === "Running" || verdict === "Awaited") && retryCount < maxRetries)
RepollEngineB ==
  /\ pc = "repollB"
  /\ IF (expB.status = "Running" \/ expB.verdict = "Awaited")
          /\ expB.retryCount < maxRetriesB
       THEN \/ \E st \in ExperimentStatuses, v \in ObservedVerdicts :
                 /\ resultsJson' = [resultsJson EXCEPT
                                      !.phase = st,
                                      !.verdict = IF v = NONE THEN "Pass" ELSE v]
                 /\ expB' = [expB EXCEPT !.status = st, !.verdict = v,
                                         !.retryCount = RetryCountAfter(@)]
                 /\ observed' = v
                 /\ pc' = IF st # "Running" /\ v # "Awaited" THEN "guessB" ELSE "repollB"
            \/ \* the get failed or the status lost its experiments
               /\ expB' = [expB EXCEPT !.retryCount = RetryCountAfter(@)]
               /\ UNCHANGED <<resultsJson, observed, pc>>
       ELSE /\ pc' = "guessB"
            /\ UNCHANGED <<resultsJson, expB, observed>>
  /\ UNCHANGED <<impl, wrapper, chaosType, duration, now, engineName, build,
                 appLabel, manifest, applyLog, createdEngines, poll, params,
                 res, setupFailure, outcome, ret, wOutcome, wret, response>>
  /\ UNCHANGED recVars
  /\ UNCHANGED setupVars
  /\ UNCHANGED reply

\* if (verdict === "Awaited"): the experiment pod's phase, its logs, pod
\* events, and at last "Using Pass verdict as fallback"
GuessedVerdict(podPhase) ==
  IF expB.pod /\ podPhase = "Failed" THEN "Fail" ELSE "Pass"

\* experimentInfo is read for the last time here (its fields only spell
\* candidate names afterwards), so the model forgets it
GuessVerdictB ==
  /\ pc = "guessB"
  /\ \E podPhase \in {"Succeeded", "Failed", "Running"} :
       resultsJson' = IF resultsJson.verdict = "Awaited"
                        THEN [resultsJson EXCEPT !.verdict = GuessedVerdict(podPhase)]
                        ELSE resultsJson
  /\ expB' = [NoExpB EXCEPT !.present = TRUE]
  /\ pc' = "namesB"
  /\ UNCHANGED <<impl, wrapper, chaosType, duration, now, engineName, build,
                 appLabel, manifest, applyLog, createdEngines, poll, params,
                 res, observed, setupFailure, outcome, ret, wOutcome, wret, response>>
  /\ UNCHANGED recVars
  /\ UNCHANGED setupVars
  /\ UNCHANGED reply

\* resultNames.length: 8 after a readable engine status, 3 in its catch
NumNamesB == IF expB.present THEN 8 ELSE 3

NameOwnersB(i) ==
  IF i \in {1, 2, 3, 6, 7} THEN {"this"} ELSE {"this", "other"}

\* one kubectl get chaosresult <resultName>; a hit replaces resultsJson
QueryResultNameB ==
  /\ pc = "namesB"
  /\ res.namesTried < NumNamesB
  /\ LET i == res.namesTried + 1 IN
     \/ \E r \in ResultObjects("name", NameOwnersB(i)) :
          /\ resultsJson' = r
          /\ res' = [res EXCEPT !.namesTried = i, !.nameHit = i, !.writes = @ + 1]
          /\ observed' = r.verdict
          /\ pc' = "recoveryB"
     \/ /\ res' = [res EXCEPT !.namesTried = i,
                     !.minimalMade = (i = NumNamesB /\ ~expB.present),
                     !.writes = IF i = NumNamesB /\ ~expB.present THEN @ + 1 ELSE @]
        /\ resultsJson' = IF i = NumNamesB /\ ~expB.present
                            THEN MinimalResultB ELSE resultsJson
        /\ pc' = IF i < NumNamesB THEN "namesB" ELSE "recoveryB"
        /\ UNCHANGED observed
  /\ UNCHANGED <<impl, wrapper, chaosType, duration, now, engineName, build, expB,
                 appLabel, manifest, applyLog, createdEngines, poll, params,
                 setupFailure, outcome, ret, wOutcome, wret, response>>
  /\ UNCHANGED recVars
  /\ UNCHANGED setupVars
  /\ UNCHANGED reply

\* after the recovery loop gave up: an Awaited verdict becomes Fail; reading
\* the verdict of an object without status.experimentStatus throws into catch
AfterFailedRecoveryB(r) ==
  IF ~r.hasExpStatus THEN ErrorResult
  ELSE IF r.verdict = "Awaited"
    THEN [r EXCEPT !.verdict = "Fail", !.failStep = "Pod Recovery"]
    ELSE r

\* while (!podsRecovered && recoveryRetries < maxRecoveryRetries), then return
WaitForRecoveryB ==
  /\ pc = "recoveryB"
  /\ expB.recoveryRetries < maxRecoveryRetries
  /\ \E recovered \in BOOLEAN :
       IF recovered
         THEN /\ Returns(resultsJson)
              /\ UNCHANGED <<resultsJson, expB>>
         ELSE IF expB.recoveryRetries + 1 < maxRecoveryRetries
           THEN /\ expB' = [expB EXCEPT !.recoveryRetries = @ + 1]
                /\ UNCHANGED <<resultsJson, pc, ret, outcome, wret, wOutcome>>
           ELSE /\ expB' = [expB EXCEPT !.recoveryRetries = @ + 1]
                /\ resultsJson' = AfterFailedRecoveryB(resultsJson)
                /\ Returns(resultsJson')
  /\ UNCHANGED <<impl, wrapper, chaosType, duration, now, engineName, build,
                 appLabel, manifest, applyLog, createdEngines, poll, params,
                 res, observed, setupFailure, response>>
  /\ UNCHANGED recVars
  /\ UNCHANGED setupVars
  /\ UNCHANGED reply

NextB ==
  \/ WrapperPrepare
  \/ VerifyExperiment
  \/ detectLitmusChaosVersion
  \/ EnsureServiceAccount
  \/ ResolveSelector
  \/ BuildManifest
  \/ ApplyStrict
  \/ ApplyFallback
  \/ CheckEngineCreated
  \/ SleepForExperiment
  \/ ReadEngineStatusB
  \/ RepollEngineB
  \/ GuessVerdictB
  \/ QueryResultNameB
  \/ WaitForRecoveryB
  \/ CatchError
  \/ WrapperPostProcess
  \/ ChaosTestRespond

\* runChaosExperiment of chaos/litmus.ts, later revision
SpecB == InitRun({"litmusB"}) /\ [][NextB]_vars

\* every revision of the run
Next == NextA \/ NextB

Spec == InitRun({"litmusA", "docker", "litmusB"}) /\ [][Next]_vars

(***************************************************************************)
(* Stuck-experiment detection and recovery (services/chaos/recovery.ts)    *)
(***************************************************************************)
\* a threshold that already counts an engine of exactly five minutes
IsStuckFromFiveMinutes(engineStatus, stuckMs) ==
  engineStatus = "initialized" /\ stuckMs >= StuckThresholdMinutes * MsPerMinute

\* engineStatus === "initialized" && stuckTimeMinutes > 5, with
\* stuckTimeMinutes = (currentTime - creationTime) / (1000 * 60), not rounded
IsStuck(engineStatus, stuckMs) ==
  engineStatus = "initialized" /\ stuckMs > StuckThresholdMinutes * MsPerMinute

\* new Date(engine.metadata?.creationTimestamp || Date.now())
CreationTime(engine, currentTime) ==
  IF engine.hasCreated THEN engine.created ELSE currentTime

\* engine.status?.engineStatus values of a listed engine
ListedPhases == {"initialized", "completed", NONE}

\* creationTimestamp values around the threshold
CreationTimes ==
  {T0 - StuckThresholdMinutes * MsPerMinute - 1,
   T0 - StuckThresholdMinutes * MsPerMinute,
   T0 - StuckThresholdMinutes * MsPerMinute + 1}

\* an engine of the namespace; hasCreated is false when metadata carries no
\* creationTimestamp
Engines ==
  [phase : ListedPhases, hasCreated : {TRUE}, created : CreationTimes, present : {TRUE}]
    \cup [phase : ListedPhases, hasCreated : {FALSE}, created : {0}, present : {TRUE}]

\* engines are named by their position in the namespace listing
EngineLists == UNION {[1..n -> Engines] : n \in 0..MaxEngines}

InitRecovery ==
  /\ cluster \in [engines : EngineLists, saExists : BOOLEAN,
                  canCreatePods : BOOLEAN, canAccessNodes : BOOLEAN]
  /\ ~cluster.saExists => ~cluster.canCreatePods /\ ~cluster.canAccessNodes
  /\ det = IdleDet
  /\ rec = IdleRec
  /\ \E called \in BOOLEAN, enabled \in BOOLEAN :
       /\ ~called => ~enabled
       /\ auto = [IdleAuto EXCEPT !.pc = IF called THEN "called" ELSE "idle",
                                  !.enabled = enabled]
  /\ dep = IdleDep
  /\ inst = IdleInst
  /\ litmus = IdleLitmus
  /\ conc = IdleConc
  /\ now = T0
  /\ impl = NONE
  /\ wrapper = NONE
  /\ chaosType = NONE
  /\ duration = 0
  /\ pc = "idle"
  /\ engineName = NoName
  /\ build = NoBuild
  /\ expB = NoExpB
  /\ appLabel = NONE
  /\ manifest = NoManifest
  /\ applyLog = <<>>
  /\ createdEngines = {}
  /\ poll = NoPoll
  /\ params = NoParams
  /\ resultsJson = NullResult
  /\ res = NoRes
  /\ observed = NONE
  /\ setupFailure = NONE
  /\ outcome = "idle"
  /\ ret = NullResult
  /\ wOutcome = "idle"
  /\ wret = NullResult
  /\ response = NoResponse
  /\ reply = NoReply

RunIdle ==
  UNCHANGED <<impl, wrapper, chaosType, duration, pc, engineName, build, expB,
              appLabel, manifest, applyLog, createdEngines, poll, params,
              resultsJson, res, observed, setupFailure, outcome, ret, wOutcome,
              wret, response>>

\* kubectl get chaosengines -o json || echo '{"items":[]}' and JSON.parse:
\* a parse failure lands in the outer catch, which returns the empty list
ListEngines ==
  /\ det.pc = "idle"
  /\ \E parsed \in BOOLEAN :
       det' = IF parsed
                THEN [det EXCEPT !.pc = "loop", !.listed = cluster.engines, !.idx = 1]
                ELSE [det EXCEPT !.pc = "done"]
  /\ UNCHANGED <<cluster, rec, now>>
  /\ RunIdle
  /\ UNCHANGED setupVars
  /\ UNCHANGED reply
  /\ UNCHANGED auto

\* the clock advances while the loop runs
Tick ==
  /\ det.pc = "loop"
  /\ now < T0 + MaxTicks
  /\ now' = now + 1
  /\ UNCHANGED <<cluster, det, rec>>
  /\ RunIdle
  /\ UNCHANGED setupVars
  /\ UNCHANGED reply
  /\ UNCHANGED auto

\* diagnostics.serviceAccount of a stuck record.
\*   "checkError"       the get of the account threw: the field stays undefined
\*   "permissionError"  a can-i call threw: permissions stays undefined
\*   "denied"           a can-i call failed and "|| echo no" answered for it
ServiceAccountDiagnostics(o) ==
  CASE o = "checkError" ->
         [defined |-> FALSE, exists |-> FALSE, permissions |-> FALSE,
          canCreatePods |-> FALSE, canAccessNodes |-> FALSE]
    [] ~cluster.saExists ->
         [defined |-> TRUE, exists |-> FALSE, permissions |-> FALSE,
          canCreatePods |-> FALSE, canAccessNodes |-> FALSE]
    [] o = "permissionError" ->
         [defined |-> TRUE, exists |-> TRUE, permissions |-> FALSE,
          canCreatePods |-> FALSE, canAccessNodes |-> FALSE]
    [] o = "denied" ->
         [defined |-> TRUE, exists |-> TRUE, permissions |-> TRUE,
          canCreatePods |-> FALSE, canAccessNodes |-> FALSE]
    [] OTHER ->
         [defined |-> TRUE, exists |-> TRUE, permissions |-> TRUE,
          canCreatePods |-> cluster.canCreatePods,
          canAccessNodes |-> cluster.canAccessNodes]

\* one iteration of for (const engine of engines)
ExamineEngine ==
  /\ det.pc = "loop"
  /\ det.idx <= Len(det.listed)
  /\ LET engine == det.listed[det.idx]
         currentTime == now
         stuckMs == currentTime - CreationTime(engine, currentTime)
         after == [det EXCEPT !.idx = @ + 1, !.evalAt = Append(@, currentTime)]
     IN  IF IsStuck(engine.phase, stuckMs)
           THEN \E o \in {"ok", "checkError", "permissionError", "denied"} :
                  det' = [after EXCEPT !.stuck = Append(@,
                            [engineName |-> det.idx,
                             stuckSince |-> CreationTime(engine, currentTime),
                             engineStatus |-> engine.phase,
                             stuckTimeMinutes |-> stuckMs \div MsPerMinute,
                             serviceAccount |-> ServiceAccountDiagnostics(o)])]
           ELSE det' = after
  /\ UNCHANGED <<cluster, rec, now>>
  /\ RunIdle
  /\ UNCHANGED setupVars
  /\ UNCHANGED reply
  /\ UNCHANGED auto

\* return stuckExperiments; the locals of the loop end here
ReturnStuck ==
  /\ det.pc = "loop"
  /\ det.idx > Len(det.listed)
  /\ det' = [IdleDet EXCEPT !.pc = "done", !.stuck = det.stuck]
  /\ UNCHANGED <<cluster, rec, now>>
  /\ RunIdle
  /\ UNCHANGED setupVars
  /\ UNCHANGED reply
  /\ UNCHANGED auto

\* the cluster moves on by itself: an engine reported stuck completes after all
EngineProgresses ==
  /\ det.pc = "done"
  /\ rec.pc \in {"idle", "returned"}
  /\ \E k \in DOMAIN det.stuck :
       LET i == det.stuck[k].engineName IN
       /\ cluster.engines[i].present
       /\ cluster.engines[i].phase = "initialized"
       /\ cluster' = [cluster EXCEPT !.engines[i].phase = "completed"]
  /\ UNCHANGED <<det, rec, now>>
  /\ RunIdle
  /\ UNCHANGED setupVars
  /\ UNCHANGED reply
  /\ UNCHANGED auto

\* a caller hands one record of the detection to recoverStuckExperiment
RecoverStart ==
  /\ auto.pc = "idle"
  /\ det.pc = "done"
  /\ rec.pc \in {"idle", "returned"}
  /\ rec.calls < MaxRecoverCalls
  /\ \E k \in DOMAIN det.stuck :
       rec' = [IdleRec EXCEPT
                 !.pc = "step1", !.record = k, !.calls = rec.calls + 1,
                 !.engineGone = ~cluster.engines[det.stuck[k].engineName].present]
  /\ UNCHANGED <<cluster, det, now>>
  /\ RunIdle
  /\ UNCHANGED setupVars
  /\ UNCHANGED reply
  /\ UNCHANGED auto

\* !diagnostics.serviceAccount?.exists || (permissions && (!canCreatePods || !canAccessNodes))
NeedsServiceAccount(sa) ==
  \/ ~(sa.defined /\ sa.exists)
  \/ sa.permissions /\ (~sa.canCreatePods \/ ~sa.canAccessNodes)

\* ensureLitmusChaosServiceAccount: returns at once when the account is found,
\* else applies account, role and binding and verifies; both may throw
\* the failure of the apply is logged and the function returns
ensureLitmusChaosServiceAccountBestEffort(c, getOk, applyOk, verifyOk) ==
  IF c.saExists /\ getOk THEN [ok |-> TRUE, path |-> "found", cluster |-> c]
  ELSE IF ~applyOk THEN [ok |-> TRUE, path |-> "applyFailed", cluster |-> c]
  ELSE [ok |-> verifyOk,
        path |-> IF verifyOk THEN "created" ELSE "verifyFailed",
        cluster |-> [c EXCEPT !.saExists = TRUE, !.canCreatePods = TRUE,
                              !.canAccessNodes = TRUE]]

\* path tells where the function ended: "found" at the first read,
\* "applyFailed" and "verifyFailed" at its two throws, "created" at its end
ensureLitmusChaosServiceAccount(c, getOk, applyOk, verifyOk) ==
  IF c.saExists /\ getOk THEN [ok |-> TRUE, path |-> "found", cluster |-> c]
  ELSE IF ~applyOk THEN [ok |-> FALSE, path |-> "applyFailed", cluster |-> c]
  ELSE [ok |-> verifyOk,
        path |-> IF verifyOk THEN "created" ELSE "verifyFailed",
        cluster |-> [c EXCEPT !.saExists = TRUE, !.canCreatePods = TRUE,
                              !.canAccessNodes = TRUE]]

\* the value returned when the service account cannot be recreated
ServiceAccountFailure(r) ==
  [r EXCEPT !.pc = "returned", !.success = FALSE, !.saFailed = TRUE]

\* Step 1: recreate the service account when the diagnostics ask for it
RecoverServiceAccount ==
  /\ rec.pc = "step1"
  /\ LET sa == det.stuck[rec.record].serviceAccount IN
     IF ~NeedsServiceAccount(sa)
       THEN /\ rec' = [rec EXCEPT !.pc = "step2"]
            /\ UNCHANGED cluster
       ELSE \E getOk \in BOOLEAN, applyOk \in BOOLEAN, verifyOk \in BOOLEAN :
              LET e == ensureLitmusChaosServiceAccount(cluster, getOk, applyOk, verifyOk)
                  r == [rec EXCEPT !.saNeeded = TRUE, !.saPath = e.path,
                          !.actions = Append(@, "Recreating service account with proper permissions")]
              IN  /\ cluster' = e.cluster
                  /\ rec' = IF e.ok THEN [r EXCEPT !.pc = "step2"]
                            ELSE ServiceAccountFailure(r)
  /\ UNCHANGED <<det, now>>
  /\ RunIdle
  /\ UNCHANGED setupVars
  /\ UNCHANGED reply
  /\ UNCHANGED auto

\* Step 2: kubectl delete chaosengine --grace-period=0 --force || echo "not found".
\*   "deleted"  the engine was there and is removed
\*   "echoed"   kubectl failed (engine absent or any other error); the echo
\*              makes the command succeed and its output is not read
\*   "threw"    execAsync itself rejected; caught and logged
RecoverDeleteEngine ==
  /\ rec.pc = "step2"
  /\ LET e == det.stuck[rec.record].engineName IN
     \E o \in {"deleted", "echoed", "threw"} :
       /\ o = "deleted" => cluster.engines[e].present
       /\ cluster' = IF o = "deleted"
                       THEN [cluster EXCEPT !.engines[e].present = FALSE]
                       ELSE cluster
       /\ rec' = [rec EXCEPT
                    !.pc = "step3",
                    !.actions = Append(@, "Deleting stuck chaos engine"),
                    !.deleteAttempted = TRUE,
                    !.deleteHardFailed = (o = "threw"),
                    !.deletedPhase = IF o = "deleted" THEN cluster.engines[e].phase
                                     ELSE NONE]
  /\ UNCHANGED <<det, now>>
  /\ RunIdle
  /\ UNCHANGED setupVars
  /\ UNCHANGED reply
  /\ UNCHANGED auto

\* actions pushed by the cleanup: it stops at the first call that throws
CleanupActions(pod, result, failAt) ==
  (IF pod /\ failAt # "pods" THEN <<"Deleted orphaned pod">> ELSE <<>>)
    \o (IF result /\ failAt = NONE THEN <<"Deleted orphaned result">> ELSE <<>>)

\* detectStuckExperiments(namespace) lists one namespace, and every record
\* carries it as targetNamespace
RecordNamespace == "default"

ClusterNamespaces == {RecordNamespace, "staging"}

\* the value of the chaosengine label of an object that has none, such as the
\* pods of the target workload; engines are numbered from 1
Unlabelled == 0

\* the objects of one kind that the cluster may hold
LabelledObjects(kind) ==
  {[kind |-> kind, namespace |-> ns, chaosengine |-> l] :
     ns \in ClusterNamespaces, l \in {Unlabelled} \cup DOMAIN cluster.engines}

\* a listing of the namespace without the label selector
SelectedByNamespace(kind, ns, e) ==
  {o \in LabelledObjects(kind) : o.namespace = ns}

\* kubectl get <kind> -n <targetNamespace> -l chaosengine=<engineName> -o name
Selected(kind, ns, e) ==
  {o \in LabelledObjects(kind) : o.namespace = ns /\ o.chaosengine = e}

\* Step 3: delete pods and results labelled chaosengine=<engineName>, then
\* return { success: true, message, actions }
RecoverCleanup ==
  /\ rec.pc = "step3"
  /\ LET e == det.stuck[rec.record].engineName IN
     \E pods \in SUBSET Selected("pod", RecordNamespace, e),
        results \in SUBSET Selected("chaosresult", RecordNamespace, e),
        failAt \in {NONE, "pods", "results"} :
       rec' = [rec EXCEPT
                 !.pc = "returned",
                 !.actions = Append(@, "Cleaning up orphaned resources")
                               \o CleanupActions(pods # {}, results # {}, failAt),
                 !.deleted = (IF failAt # "pods" THEN pods ELSE {})
                               \cup (IF failAt = NONE THEN results ELSE {}),
                 !.cleanupAttempted = TRUE,
                 !.success = TRUE]
  /\ UNCHANGED <<cluster, det, now>>
  /\ RunIdle
  /\ UNCHANGED setupVars
  /\ UNCHANGED reply
  /\ UNCHANGED auto

\* the recovery loop runs whatever the flag says
ShouldRecoverAlways(autoRecover) == TRUE

\* if (autoRecover)
ShouldRecover(autoRecover) == autoRecover

\* autoRecoverStuckExperiments after its detectStuckExperiments returned: with
\* nothing stuck, or with the flag off, it returns the empty recoveryResults
AutoAfterDetection ==
  /\ auto.pc = "called"
  /\ det.pc = "done"
  /\ auto' = IF det.stuck # <<>> /\ ShouldRecover(auto.enabled)
              THEN [auto EXCEPT !.pc = "loop", !.idx = 1]
              ELSE [auto EXCEPT !.pc = "returned"]
  /\ UNCHANGED <<cluster, det, rec, now>>
  /\ RunIdle
  /\ UNCHANGED setupVars
  /\ UNCHANGED reply

\* for (const exp of stuckExperiments): the call of recoverStuckExperiment(exp)
AutoRecoverNext ==
  /\ auto.pc = "loop"
  /\ rec' = [IdleRec EXCEPT
               !.pc = "step1", !.record = auto.idx, !.calls = rec.calls + 1,
               !.engineGone = ~cluster.engines[det.stuck[auto.idx].engineName].present]
  /\ auto' = [auto EXCEPT !.pc = "awaiting"]
  /\ UNCHANGED <<cluster, det, now>>
  /\ RunIdle
  /\ UNCHANGED setupVars
  /\ UNCHANGED reply

\* recoveryResults[exp.engineName] = the value recoverStuckExperiment returned;
\* after the last record, return { stuckExperiments, recoveryResults }
AutoCollect ==
  /\ auto.pc = "awaiting"
  /\ rec.pc = "returned"
  /\ LET name == det.stuck[auto.idx].engineName
         kept == {r \in auto.recoveryResults : r.engineName # name}
     IN  auto' = [auto EXCEPT
                    !.recoveryResults = kept \cup {[engineName |-> name,
                                                    success |-> rec.success]},
                    !.idx = @ + 1,
                    !.pc = IF auto.idx < Len(det.stuck) THEN "loop" ELSE "returned"]
  /\ UNCHANGED <<cluster, det, rec, now>>
  /\ RunIdle
  /\ UNCHANGED setupVars
  /\ UNCHANGED reply

NextRecovery ==
  \/ ListEngines
  \/ Tick
  \/ ExamineEngine
  \/ ReturnStuck
  \/ EngineProgresses
  \/ RecoverStart
  \/ RecoverServiceAccount
  \/ RecoverDeleteEngine
  \/ RecoverCleanup
  \/ AutoAfterDetection
  \/ AutoRecoverNext
  \/ AutoCollect

SpecRecovery == InitRecovery /\ [][NextRecovery]_vars

(***************************************************************************)
(* Properties                                                              *)
(***************************************************************************)
\* some kubectl apply of the engine was accepted
EngineApplied == \E i \in DOMAIN applyLog : applyLog[i].ok

\* C1: once the engine has been applied, runChaosExperiment never throws and
\* returns a non-null result, also when no ChaosResult is found under any
\* candidate name, the scan finds nothing and the engine status is empty,
\* missing or unparseable.
C1_NonNullAfterApply ==
  (EngineApplied /\ outcome # "running") =>
     (outcome = "returned" /\ ret.kind # "null")

\* C2: every result returned by runChaosExperiment and by the typed wrappers
\* carries a verdict that is exactly one of Pass, Fail, Awaited, on the normal,
\* fallback and error paths alike.
C2_VerdictIsPassFailAwaited ==
  /\ outcome = "returned" => VerdictOf(ret) \in ValidVerdicts
  /\ wOutcome = "returned" => VerdictOf(wret) \in ValidVerdicts

\* a reported verdict agrees with the last verdict read from the control plane
Honest(reported) ==
  /\ observed = "Fail" => reported # "Pass"
  /\ observed \in {"Awaited", NONE} => reported \notin {"Pass", "Pass (Synthetic)"}

\* C3: the verdict reported to the caller reflects the best real observation:
\* a resolved Fail is never reported as Pass, and an Awaited, stuck or
\* unresolved outcome is never replaced by a default or fabricated Pass or by
\* synthetic diagnostics.
C3_VerdictReflectsObservation ==
  /\ wOutcome = "returned" => Honest(VerdictOf(wret))
  /\ response.sent => Honest(response.verdict)

\* C4: detectStuckExperiments includes an engine only if its phase is
\* initialized and the time since its creationTimestamp is strictly greater
\* than 5 minutes; never a younger engine, an engine in another phase, or an
\* engine without creationTimestamp.
C4_StuckOnlyInitializedPastFiveMinutes ==
  det.pc = "loop" =>
    \A k \in DOMAIN det.stuck :
      LET engine == det.listed[det.stuck[k].engineName]
          examinedAt == det.evalAt[det.stuck[k].engineName]
      IN  /\ engine.phase = "initialized"
          /\ engine.hasCreated
          /\ examinedAt - engine.created > StuckThresholdMinutes * MsPerMinute

\* C4 witness: an engine created exactly five minutes before the call is
\* reported once the clock has moved on by a millisecond
C4_Witness ==
  /\ det.pc = "loop"
  /\ \E k \in DOMAIN det.stuck :
       LET i == det.stuck[k].engineName IN
       det.evalAt[i] - det.listed[i].created = StuckThresholdMinutes * MsPerMinute + 1

HasNotFoundAction(actions) ==
  \E i \in DOMAIN actions : actions[i] = "not found"

\* C5: recoverStuckExperiment is idempotent: a second call for a record whose
\* engine is already deleted returns success = true with a "not found" action
\* in actions, and never throws.
C5_SecondCallReportsNotFound ==
  (rec.pc = "returned" /\ rec.engineGone) =>
     (rec.success /\ HasNotFoundAction(rec.actions))

\* C6: a failure in one step never blocks a later step: the force-delete and
\* the orphan cleanup are attempted also when the service account cannot be
\* recreated, and the cleanup also when the delete fails.
C6_LaterStepsAlwaysAttempted ==
  rec.pc = "returned" => (rec.deleteAttempted /\ rec.cleanupAttempted)

\* C7: success reflects only whether the engine delete was attempted without a
\* hard error: true when the delete was attempted and did not hard-fail, false
\* when it hard-failed, whatever service-account recreation and cleanup did.
C7_SuccessReflectsDeleteOnly ==
  rec.pc = "returned" =>
    (rec.success <=> (rec.deleteAttempted /\ ~rec.deleteHardFailed))

\* the source that resolved the result, from the record of what was consulted
ResolvedBy ==
  IF res.nameHit # 0 THEN "name"
  ELSE IF res.scanHit THEN "scan"
  ELSE IF res.engineHit THEN "engine"
  ELSE IF res.minimalMade THEN "minimal"
  ELSE NONE

C9_OneEngineOneName ==
  /\ \A i \in DOMAIN applyLog : applyLog[i].manifest.name = engineName
  /\ Cardinality(createdEngines) <= 1
  /\ EngineApplied => createdEngines = {engineName}

\* C9 witness: the last fallback format is accepted after every earlier apply
\* was rejected
C9_Witness ==
  /\ Len(applyLog) = 1 + NumFallbacks
  /\ applyLog[Len(applyLog)].ok
  /\ \A i \in 1..NumFallbacks : ~applyLog[i].ok
  /\ createdEngines = {engineName}

MaxFiles == 3

\* Number.MAX_SAFE_INTEGER, the priority a readable file keeps when none of
\* its documents has a kind; only its order relative to 999 is used, so the
\* largest integer of the checker stands for 2^53 - 1
MAX_SAFE_INTEGER == 2147483647

\* priority of a kind missing from resourceOrder, and of an unreadable file
UnknownPriority == 999

resourceOrder ==
  [Namespace |-> 0, NetworkPolicy |-> 1, ResourceQuota |-> 2, LimitRange |-> 3,
   PodSecurityPolicy |-> 4, Secret |-> 5, ConfigMap |-> 6, StorageClass |-> 7,
   PersistentVolume |-> 8, PersistentVolumeClaim |-> 9, ServiceAccount |-> 10,
   CustomResourceDefinition |-> 11, ClusterRole |-> 12, ClusterRoleBinding |-> 13,
   Role |-> 14, RoleBinding |-> 15, Service |-> 16, StatefulSet |-> 17,
   Deployment |-> 18, DaemonSet |-> 19, Job |-> 20, CronJob |-> 21,
   Ingress |-> 22, HorizontalPodAutoscaler |-> 23]

\* the manifest files a repository may hold: whether fs.readFile and
\* yaml.loadAll succeed on it, and the kind of each of its documents
ManifestFiles ==
  [service    |-> [readable |-> TRUE,  kinds |-> <<"Service">>],
   namespace  |-> [readable |-> TRUE,  kinds |-> <<"Namespace">>],
   deployment |-> [readable |-> TRUE,  kinds |-> <<"Deployment">>],
   bundle     |-> [readable |-> TRUE,  kinds |-> <<"Widget", "ConfigMap">>],
   broken     |-> [readable |-> FALSE, kinds |-> <<>>]]

FileNames == DOMAIN ManifestFiles

\* manifestPaths: distinct files in the order findManifestFiles returns them
FileLists ==
  {s \in UNION {[1..n -> FileNames] : n \in 0..MaxFiles} :
     \A i, j \in DOMAIN s : i # j => s[i] # s[j]}

\* kind in resourceOrder ? resourceOrder[kind] : 999
KindPriority(kind) ==
  IF kind \in DOMAIN resourceOrder THEN resourceOrder[kind] ELSE UnknownPriority

MinOf(a, b) == IF a <= b THEN a ELSE b

RECURSIVE HighestPriority(_, _)
\* for (const doc of docs) highestPriority = Math.min(highestPriority, priority)
HighestPriority(kinds, highestPriority) ==
  IF kinds = <<>> THEN highestPriority
  ELSE HighestPriority(Tail(kinds), MinOf(highestPriority, KindPriority(Head(kinds))))

\* the [path, priority] tuple of one file; the catch assigns 999
FilePriority(filePath) ==
  IF ManifestFiles[filePath].readable
    THEN HighestPriority(ManifestFiles[filePath].kinds, MAX_SAFE_INTEGER)
    ELSE UnknownPriority

\* the comparator of the sort, (a, b) => b[1] - a[1], would reverse the order
ComesBeforeReversed(a, b) == FilePriority(a) > FilePriority(b)

\* the comparator of the sort, (a, b) => a[1] - b[1]: a moves in front of b
\* only when its priority is strictly lower (Array.prototype.sort is stable)
ComesBefore(a, b) == FilePriority(a) < FilePriority(b)

RECURSIVE InsertByPriority(_, _)
InsertByPriority(sorted, filePath) ==
  IF sorted = <<>> THEN <<filePath>>
  ELSE IF ComesBefore(filePath, Head(sorted))
         THEN <<filePath>> \o sorted
         ELSE <<Head(sorted)>> \o InsertByPriority(Tail(sorted), filePath)

RECURSIVE SortFrom(_, _)
SortFrom(sorted, rest) ==
  IF rest = <<>> THEN sorted
  ELSE SortFrom(InsertByPriority(sorted, Head(rest)), Tail(rest))

sortManifestsByDependency(manifestPaths) == SortFrom(<<>>, manifestPaths)

\* kubectl get deployments --all-namespaces lists by namespace, then by name
DeploymentListing ==
  <<[name |-> "api",              namespace |-> "default"],
    [name |-> "app",              namespace |-> "default"],
    [name |-> "nginx-chaos-test", namespace |-> "default"],
    [name |-> "coredns",          namespace |-> "kube-system"],
    [name |-> "chaos-operator-ce", namespace |-> "litmus"],
    [name |-> "app",              namespace |-> "staging"]>>

\* the Deployment and the Service of the fallback manifest
FallbackApplication ==
  [name |-> "nginx-chaos-test", namespace |-> "default", replicas |-> 2,
   service |-> "nginx-chaos-test"]

FallbackDeployment ==
  [name |-> FallbackApplication.name, namespace |-> FallbackApplication.namespace]

OperatorDeployment == [name |-> "chaos-operator-ce", namespace |-> "litmus"]

\* what the kind cluster 'chaos-test' may hold from earlier requests
EarlierDeployments ==
  {[name |-> "api", namespace |-> "default"],
   [name |-> "coredns", namespace |-> "kube-system"]}

\* the deployment a manifest file creates in the namespace of the apply
CreatedBy(filePath, namespace) ==
  IF \E i \in DOMAIN ManifestFiles[filePath].kinds :
       ManifestFiles[filePath].kinds[i] = "Deployment"
    THEN {[name |-> "app", namespace |-> namespace]}
    ELSE {}

\* items[0] of the listing
FirstListed(deployments) ==
  LET i == CHOOSE k \in DOMAIN DeploymentListing :
             /\ DeploymentListing[k] \in deployments
             /\ \A j \in 1..(k - 1) : DeploymentListing[j] \notin deployments
  IN  DeploymentListing[i]

NoTarget == [name |-> NONE, namespace |-> NONE]
NoResult == [success |-> FALSE, manifestsApplied |-> 0, totalManifests |-> 0,
             errors |-> <<>>, appliedFiles |-> <<>>, namespace |-> NONE]

\* every variable of the run and of the recovery at rest
RunAtRest ==
  /\ impl = NONE
  /\ wrapper = NONE
  /\ chaosType = NONE
  /\ duration = 0
  /\ pc = "idle"
  /\ engineName = NoName
  /\ build = NoBuild
  /\ expB = NoExpB
  /\ appLabel = NONE
  /\ manifest = NoManifest
  /\ applyLog = <<>>
  /\ createdEngines = {}
  /\ poll = NoPoll
  /\ params = NoParams
  /\ resultsJson = NullResult
  /\ res = NoRes
  /\ observed = NONE
  /\ setupFailure = NONE
  /\ outcome = "idle"
  /\ ret = NullResult
  /\ wOutcome = "idle"
  /\ wret = NullResult
  /\ response = NoResponse
  /\ reply = NoReply
  /\ cluster = IdleCluster
  /\ det = IdleDet
  /\ rec = IdleRec
  /\ auto = IdleAuto
  /\ now = T0

OthersIdle ==
  /\ RunIdle
  /\ UNCHANGED <<now, recVars>>
  /\ UNCHANGED <<litmus, conc>>
  /\ UNCHANGED reply

\* applyStrategy of DeploymentOptions; NONE when the caller passes no options
ApplyStrategies == {NONE, "strict-order", "parallel"}

\* a call of deployApplication(repoDir, options) in one of its two revisions,
\* or a call of findTargetDeployment alone, on a cluster earlier requests left
InitSetup ==
  /\ RunAtRest
  /\ inst = IdleInst
  /\ litmus = IdleLitmus
  /\ conc = IdleConc
  /\ \E entry \in {"deploy", "find"}, rev \in {"part005", "docker"},
        files \in FileLists, strategy \in ApplyStrategies,
        namespace \in {"default", "staging"},
        deployments \in SUBSET (EarlierDeployments \cup {FallbackDeployment}) :
       /\ entry = "find" => files = <<>> /\ strategy = NONE /\ namespace = "default"
       /\ entry = "deploy" => FallbackDeployment \notin deployments
       /\ rev = "part005" => strategy = NONE
       /\ rev = "docker" => namespace = "default"
       /\ dep = [IdleDep EXCEPT !.pc = entry, !.rev = rev, !.files = files,
                                !.strategy = strategy, !.namespace = namespace,
                                !.deployments = deployments]

\* deployFallbackApplication: kubectl apply of the fallback manifest, then
\* kubectl wait --for=condition=available; either failure is rethrown
deployFallbackApplication(deployments, o) ==
  [ok |-> (o = "ok"),
   applied |-> (o # "applyFailed"),
   deployments |-> IF o = "applyFailed" THEN deployments
                   ELSE deployments \cup {FallbackDeployment}]

FallbackOutcomes == {"ok", "applyFailed", "waitFailed"}

\* the result deployApplication returns after the fallback
FallbackResult ==
  [success |-> TRUE, manifestsApplied |-> 1, totalManifests |-> 1,
   errors |-> <<>>, appliedFiles |-> <<"fallback-nginx.yaml">>,
   namespace |-> "default"]

\* deployApplication up to its apply loop.
\*   part005: no manifest file: deploy the fallback and return; otherwise
\*            create the namespace (unguarded) and apply in the given order
\*   docker:  no manifest file: throw; otherwise applyManifests, which only
\*            warns when the namespace cannot be created and sorts the files
\*            under the strict-order strategy
DeployApplication ==
  /\ dep.pc = "deploy"
  /\ IF dep.files = <<>>
       THEN IF dep.rev = "part005"
              THEN \E o \in FallbackOutcomes :
                     LET f == deployFallbackApplication(dep.deployments, o) IN
                     dep' = [dep EXCEPT
                               !.noFiles = TRUE,
                               !.pc = IF f.ok THEN "deployed" ELSE "failed",
                               !.deploy = IF f.ok THEN "returned" ELSE "thrown",
                               !.result = IF f.ok THEN FallbackResult ELSE NoResult,
                               !.fallbacks = IF f.applied THEN @ + 1 ELSE @,
                               !.deployments = f.deployments]
              ELSE dep' = [dep EXCEPT !.noFiles = TRUE, !.pc = "failed",
                                      !.deploy = "thrown"]
       ELSE \E namespaceOk \in BOOLEAN :
              IF dep.rev = "part005" /\ dep.namespace # "default" /\ ~namespaceOk
                THEN dep' = [dep EXCEPT !.pc = "failed", !.deploy = "thrown"]
                ELSE dep' = [dep EXCEPT
                               !.pc = "apply",
                               !.deploy = "running",
                               !.order = IF dep.strategy = "strict-order"
                                           THEN sortManifestsByDependency(dep.files)
                                           ELSE dep.files]
  /\ UNCHANGED inst
  /\ OthersIdle

\* the loop stops at the first file that fails
AfterApplyAborting(d, applied) ==
  IF applied THEN d ELSE [d EXCEPT !.pc = "failed", !.deploy = "thrown"]

\* the catch of the loop body records the failure and the loop goes on
AfterApply(d, applied) == d

\* the counter goes up with every file that was tried
AppliedCountAfterEveryAttempt(appliedCount, applied) == appliedCount + 1

\* appliedCount++ next to appliedFiles.push(file), on success only
AppliedCountAfter(appliedCount, applied) ==
  IF applied THEN appliedCount + 1 ELSE appliedCount

\* one iteration of the sequential loop: kubectl apply -f file.  No path is
\* blank (find prints paths below repoDir), so if (file.trim()) skips none
ApplyNextManifest ==
  /\ dep.pc = "apply"
  /\ dep.strategy # "parallel"
  /\ Len(dep.attempts) < Len(dep.order)
  /\ LET file == dep.order[Len(dep.attempts) + 1] IN
     \E applied \in BOOLEAN :
       dep' = AfterApply(
                [dep EXCEPT
                   !.attempts = Append(@, file),
                   !.appliedFiles = IF applied THEN Append(@, file) ELSE @,
                   !.appliedCount = AppliedCountAfter(@, applied),
                   !.errors = IF applied THEN @ ELSE Append(@, file),
                   !.deployments = IF applied
                                     THEN @ \cup CreatedBy(file, dep.namespace)
                                     ELSE @],
                applied)
  /\ UNCHANGED inst
  /\ OthersIdle

RECURSIVE Keep(_, _)
\* the files of a list that belong to a set, in the order of the list
Keep(files, wanted) ==
  IF files = <<>> THEN <<>>
  ELSE (IF Head(files) \in wanted THEN <<Head(files)>> ELSE <<>>)
         \o Keep(Tail(files), wanted)

RECURSIVE CreatedByAll(_, _)
CreatedByAll(files, namespace) ==
  IF files = <<>> THEN {}
  ELSE CreatedBy(Head(files), namespace) \cup CreatedByAll(Tail(files), namespace)

\* the results taken in the order in which the applications completed
JoinOrderByCompletion(order, completion) ==
  [k \in DOMAIN completion |-> completion[k].file]

\* Promise.all resolves to the results in the order of the promises, that is
\* of manifestsWithDependencies, whenever each of them settled
JoinOrder(order, completion) == order

\* the files whose application settled with the given outcome
SettledFiles(completion, success) ==
  {completion[k].file : k \in {j \in DOMAIN completion :
                                  completion[j].success = success}}

\* the parallel strategy: map starts every kubectl apply, in the order of the
\* files, before any of them is awaited
ApplyParallel ==
  /\ dep.pc = "apply"
  /\ dep.strategy = "parallel"
  /\ dep.attempts = <<>>
  /\ dep' = [dep EXCEPT !.pc = "parallel", !.attempts = dep.order]
  /\ UNCHANGED inst
  /\ OthersIdle

\* one of the pending applications settles, in whatever order the cluster
\* answers: { success: true, file } or { success: false, file, error }
ParallelSettle ==
  /\ dep.pc = "parallel"
  /\ \E file \in {dep.order[i] : i \in DOMAIN dep.order}
                  \ {dep.completion[k].file : k \in DOMAIN dep.completion},
        applied \in BOOLEAN :
       dep' = [dep EXCEPT
                 !.completion = Append(@, [file |-> file, success |-> applied]),
                 !.deployments = IF applied
                                   THEN @ \cup CreatedBy(file, dep.namespace)
                                   ELSE @]
  /\ UNCHANGED inst
  /\ OthersIdle

RECURSIVE CountResults(_, _, _)
\* for (const result of results) if (result.success) appliedCount++
CountResults(results, succeeded, appliedCount) ==
  IF results = <<>> THEN appliedCount
  ELSE CountResults(Tail(results), succeeded,
                    AppliedCountAfter(appliedCount, Head(results) \in succeeded))

\* await Promise.all(applyPromises), then the loop over results that counts
\* the successes and collects the errors
JoinParallel ==
  /\ dep.pc = "parallel"
  /\ Len(dep.completion) = Len(dep.order)
  /\ LET results == JoinOrder(dep.order, dep.completion) IN
     dep' = [dep EXCEPT
               !.pc = "apply",
               !.appliedFiles = Keep(results, SettledFiles(dep.completion, TRUE)),
               !.appliedCount = CountResults(results,
                                             SettledFiles(dep.completion, TRUE), 0),
               !.errors = Keep(results, SettledFiles(dep.completion, FALSE))]
  /\ UNCHANGED inst
  /\ OthersIdle

\* after the loop: the readiness wait only adds a warning, and the result is
\* returned
DeployReturn ==
  /\ dep.pc = "apply"
  /\ Len(dep.attempts) = Len(dep.order)
  /\ dep' = [dep EXCEPT
               !.pc = "deployed",
               !.deploy = "returned",
               !.result = [success |-> dep.appliedCount > 0,
                           manifestsApplied |-> dep.appliedCount,
                           totalManifests |-> Len(dep.order),
                           errors |-> dep.errors,
                           appliedFiles |-> dep.appliedFiles,
                           namespace |-> dep.namespace]]
  /\ UNCHANGED inst
  /\ OthersIdle

\* setupLitmusChaos up to installPodDeleteExperiment.
\*   "complete"   namespace, operator pods, CRDs and pod-delete were all found
\*   "installed"  the operator runs but a CRD or the experiment is missing
\*   "absent"     the operator has to be installed, from one of its sources
\* An operator that runs has its Deployment in namespace litmus.  What the
\* deployment loop kept is of no further use and is dropped here.
SetupLitmusChaos ==
  /\ dep.pc = "deployed"
  /\ \E found \in {"complete", "installed", "absent"},
        operatorOk \in BOOLEAN, crdsOk \in BOOLEAN :
       LET d == [dep EXCEPT !.files = <<>>, !.order = <<>>, !.attempts = <<>>,
                            !.completion = <<>>, !.appliedCount = 0,
                            !.errors = <<>>, !.appliedFiles = <<>>,
                            !.result = NoResult, !.strategy = NONE]
           withOperator == [d EXCEPT !.deployments = @ \cup {OperatorDeployment}]
       IN  CASE found = "complete" ->
                  /\ dep' = [withOperator EXCEPT !.pc = "verify"]
                  /\ UNCHANGED inst
             [] found = "absent" /\ ~operatorOk ->
                  /\ dep' = [d EXCEPT !.pc = "failed"]
                  /\ UNCHANGED inst
             [] ~crdsOk ->
                  /\ dep' = [withOperator EXCEPT !.pc = "failed"]
                  /\ UNCHANGED inst
             [] OTHER ->
                  /\ dep' = [withOperator EXCEPT !.pc = "installing"]
                  /\ inst' = [IdleInst EXCEPT !.pc = "check"]
  /\ OthersIdle

\* the candidate definitions of pod-delete, in the order of the source text
Shapes == <<"hub", "rbac", "simple">>

\* kubectl get chaosexperiment pod-delete: an existing definition with an
\* image is kept and the function returns; anything else is installed over
InstallCheckExisting ==
  /\ inst.pc = "check"
  /\ \E existing \in {"valid", "invalid", "absent"} :
       inst' = [inst EXCEPT !.existing = existing,
                            !.pc = IF existing = "valid" THEN "returned" ELSE "shape",
                            !.next = IF existing = "valid" THEN 0 ELSE 1]
  /\ UNCHANGED dep
  /\ OthersIdle

\* every candidate is applied, whatever the earlier ones did
AfterShapeKeepsGoing(i, accepted, anyAccepted) ==
  IF i < Len(Shapes) THEN [pc |-> "shape", next |-> i + 1]
  ELSE [pc |-> IF anyAccepted THEN "returned" ELSE "thrown", next |-> 0]

\* return after a candidate that was applied and read back; otherwise the
\* next candidate, and after the last one the throw
AfterShape(i, accepted, anyAccepted) ==
  IF accepted THEN [pc |-> "returned", next |-> 0]
  ELSE IF i < Len(Shapes) THEN [pc |-> "shape", next |-> i + 1]
  ELSE [pc |-> "thrown", next |-> 0]

\* one candidate: kubectl apply of the definition, then kubectl get
\* chaosexperiment pod-delete to read it back
InstallShape ==
  /\ inst.pc = "shape"
  /\ \E applyOk \in BOOLEAN, readBack \in BOOLEAN :
       LET accepted == ReadBackAccepts(applyOk, readBack)
           log == Append(inst.applied,
                         [shape |-> Shapes[inst.next], applied |-> applyOk,
                          readBack |-> readBack, accepted |-> accepted])
           a == AfterShape(inst.next, accepted,
                           \E k \in DOMAIN log : log[k].accepted)
       IN  /\ applyOk \/ ~readBack
           /\ inst' = [inst EXCEPT !.applied = log, !.pc = a.pc, !.next = a.next]
  /\ UNCHANGED dep
  /\ OthersIdle

\* the end of setupLitmusChaos: a throw of the installer is passed on, and
\* the final read of the CRDs and of pod-delete throws when one is missing
FinishSetup ==
  /\ \/ dep.pc = "verify"
     \/ dep.pc = "installing" /\ inst.pc \in {"returned", "thrown"}
  /\ \E verified \in BOOLEAN :
       dep' = [dep EXCEPT !.pc = IF inst.pc # "thrown" /\ verified
                                   THEN "find" ELSE "failed"]
  /\ UNCHANGED inst
  /\ OthersIdle

\* the fallback is deployed on every call
NeedsFallbackAlways(listing) == TRUE

\* !deploymentList.trim() || deploymentList.includes("No resources found")
NeedsFallback(listing) == listing = {}

\* findTargetDeployment: kubectl get deployments --all-namespaces; with an
\* empty listing the fallback is deployed (part005 returns it at once, docker
\* reads the listing again); otherwise items[0] with its own namespace
FindTargetDeployment ==
  /\ dep.pc = "find"
  /\ \E listOk \in BOOLEAN, o \in FallbackOutcomes :
       LET f == deployFallbackApplication(dep.deployments, o)
           seen == [dep EXCEPT !.listing = dep.deployments, !.pc = "done"]
       IN  IF ~listOk
             THEN dep' = [dep EXCEPT !.pc = "done", !.find = "thrown"]
           ELSE IF NeedsFallback(dep.deployments)
             THEN dep' = [seen EXCEPT
                            !.deployments = f.deployments,
                            !.fallbacks = IF f.applied THEN @ + 1 ELSE @,
                            !.fallbackByFind = f.applied,
                            !.find = IF f.ok THEN "returned" ELSE "thrown",
                            !.target = IF ~f.ok THEN NoTarget
                                       ELSE IF dep.rev = "part005"
                                         THEN FallbackDeployment
                                         ELSE FirstListed(f.deployments)]
           ELSE /\ o = "ok"
                /\ dep' = [seen EXCEPT !.find = "returned",
                                       !.target = FirstListed(dep.deployments)]
  /\ UNCHANGED inst
  /\ OthersIdle

NextSetup ==
  \/ DeployApplication
  \/ ApplyNextManifest
  \/ ApplyParallel
  \/ ParallelSettle
  \/ JoinParallel
  \/ DeployReturn
  \/ SetupLitmusChaos
  \/ InstallCheckExisting
  \/ InstallShape
  \/ FinishSetup
  \/ FindTargetDeployment

SpecSetup == InitSetup /\ [][NextSetup]_vars

\* some candidate definition was applied and read back
ShapeAccepted == \E k \in DOMAIN inst.applied : inst.applied[k].accepted

\* C11: installPodDeleteExperiment tries its three candidate definitions in
\* one fixed order (hub, then the one with nested permissions, then the one
\* without permissions), stops at the first one that is accepted, that is
\* applied and read back, and never applies a later candidate after an
\* earlier one was accepted.
C11_ShapesInOrderUntilAccepted ==
  /\ Len(inst.applied) <= Len(Shapes)
  /\ \A k \in DOMAIN inst.applied :
       /\ inst.applied[k].shape = Shapes[k]
       /\ inst.applied[k].accepted => k = Len(inst.applied)
  /\ ShapeAccepted => inst.pc = "returned"
  /\ inst.pc = "returned" => (ShapeAccepted \/ inst.existing = "valid")
  /\ inst.pc = "thrown" => (Len(inst.applied) = Len(Shapes) /\ ~ShapeAccepted)

\* C11 witness: the hub definition was applied but could not be read back,
\* the definition with nested permissions was accepted, and the third
\* candidate was never applied
C11_Witness ==
  /\ inst.pc = "returned"
  /\ Len(inst.applied) = 2
  /\ inst.applied[1].applied /\ ~inst.applied[1].accepted
  /\ inst.applied[2].accepted

\* the position of a file among the applies issued so far, 0 when not yet
PositionOf(file) ==
  IF \E i \in DOMAIN dep.attempts : dep.attempts[i] = file
    THEN CHOOSE i \in DOMAIN dep.attempts : dep.attempts[i] = file
    ELSE 0

\* the files of the call are the Service, Namespace and Deployment files
ThreeSingleKindFiles ==
  /\ Len(dep.files) = 3
  /\ {dep.files[i] : i \in DOMAIN dep.files} = {"service", "namespace", "deployment"}

\* C12: a strict-order apply of three single-kind files {Service, Namespace,
\* Deployment}, given in any of the six input orders, applies the Namespace
\* file first and the Deployment file after the Service file.
C12_StrictOrderNamespaceFirst ==
  (dep.strategy = "strict-order" /\ ThreeSingleKindFiles) =>
     /\ dep.attempts # <<>> => dep.attempts[1] = "namespace"
     /\ PositionOf("deployment") # 0 =>
          (PositionOf("service") # 0 /\ PositionOf("service") < PositionOf("deployment"))
     /\ dep.deploy = "returned" => Len(dep.attempts) = 3

\* C12 witness: the files came in the order Deployment, Service, Namespace
\* and all three were applied under strict-order
C12_Witness ==
  /\ dep.strategy = "strict-order"
  /\ dep.files = <<"deployment", "service", "namespace">>
  /\ dep.deploy = "returned"
  /\ dep.attempts = <<"namespace", "service", "deployment">>

\* C13: when a repository yields zero deployable manifest files,
\* deployApplication does not fail: it creates exactly one fallback workload
\* (a Deployment with 2 replicas) and one Service, and a subsequent
\* findTargetDeployment returns that fallback workload.
C13_NoFilesDeploysFallback ==
  dep.noFiles =>
    /\ dep.deploy = "returned"
    /\ dep.fallbacks = 1
    /\ FallbackDeployment \in dep.deployments
    /\ FallbackApplication.replicas = 2
    /\ dep.find = "returned" => dep.target = FallbackDeployment

\* the files of a list, as a set
FilesOf(list) == {list[i] : i \in DOMAIN list}

C17_FallbackOnlyOnEmptyListing ==
  /\ dep.fallbackByFind => dep.listing = {}
  /\ dep.find = "returned" =>
       IF dep.listing = {}
         THEN /\ dep.fallbackByFind
              /\ dep.target = [name |-> "nginx-chaos-test", namespace |-> "default"]
         ELSE /\ dep.deployments = dep.listing
              /\ dep.target \in dep.listing
              /\ dep.target = FirstListed(dep.listing)

\* C17 witness: the listing showed only coredns in kube-system, and that
\* deployment was returned with its namespace and nothing was deployed
C17_Witness ==
  /\ dep.find = "returned"
  /\ dep.listing = {[name |-> "coredns", namespace |-> "kube-system"]}
  /\ dep.target = [name |-> "coredns", namespace |-> "kube-system"]
  /\ ~dep.fallbackByFind

\* every control-plane call returns, so a run that can take a step takes one;
\* the sleep is one step whatever its length, and one duration is enough
InitFair ==
  /\ InitRun({"litmusA", "docker", "litmusB"})
  /\ duration = 10

FairSpec == InitFair /\ [][Next]_vars /\ WF_vars(Next)

\* C15: every wait inside a run has a fixed upper bound, so runChaosExperiment
\* terminates on every path provided each control-plane call returns: the
\* execution-pod polling, the verdict re-polling and the pod-recovery polling
\* stop after a fixed maximum number of attempts, and each sleep and readiness
\* wait has a fixed duration or timeout.
C15_RunTerminates == <>(outcome \in {"returned", "thrown"} \/ wOutcome = "thrown")

\* C15 witness: the pod-recovery polling used every one of its attempts
\* without seeing the pods ready, and the run returned all the same
C15_Witness ==
  /\ impl = "litmusB"
  /\ expB.recoveryRetries = maxRecoveryRetries
  /\ outcome = "returned"

\* the engine names that have an entry in recoveryResults
RecoveredNames == {r.engineName : r \in auto.recoveryResults}

\* the engine names the detection of this call reported as stuck
StuckNames == {det.stuck[k].engineName : k \in DOMAIN det.stuck}

\* C16: autoRecoverStuckExperiments(namespace, enabled) is detection only
\* when enabled is false: it issues no apply or delete against the cluster
\* and returns empty recoveryResults; recoveryResults has an entry for an
\* engine name if and only if enabled is true and that engine was detected as
\* stuck in the same call.
C16_RecoversOnlyWhenEnabled ==
  /\ (auto.pc # "idle" /\ ~auto.enabled) =>
       /\ rec = IdleRec
       /\ auto.recoveryResults = {}
       /\ \A i \in DOMAIN cluster.engines : cluster.engines[i].present
  /\ auto.pc = "returned" =>
       RecoveredNames = (IF auto.enabled THEN StuckNames ELSE {})

\* C16 witness: a stuck engine was detected with the flag off, and the call
\* returned without a recovery
C16_Witness ==
  /\ auto.pc = "returned"
  /\ ~auto.enabled
  /\ det.stuck # <<>>
  /\ auto.recoveryResults = {}

\* C18: the label selector written into the chaos engine and used for the
\* pod-readiness wait is always the one read from the target workload's own
\* spec; when the workload's selector cannot be read, the run never
\* substitutes a guessed selector.
C18_SelectorNeverGuessed ==
  /\ appLabel # "guessed"
  /\ \A i \in DOMAIN applyLog : applyLog[i].manifest.selector = "fromSpec"

\* C20: every chaos-engine manifest that a run can apply, in every schema
\* variant and every fallback format, lists TOTAL_CHAOS_DURATION with the
\* requested duration in spec.experiments[0].spec.components.env.
C20_DurationInEveryManifest ==
  \A i \in DOMAIN applyLog :
    /\ "TOTAL_CHAOS_DURATION" \in applyLog[i].manifest.env
    /\ applyLog[i].manifest.duration = duration

\* C20 witness: the most minimal fallback text was applied for a run of 10
\* seconds and carries that duration
C20_Witness ==
  /\ applyLog # <<>>
  /\ applyLog[Len(applyLog)].manifest.format = "fallback3"
  /\ applyLog[Len(applyLog)].manifest.duration = 10
  /\ duration = 10

\* the run resolved an Awaited verdict for an engine still in phase initialized
AwaitedWhileInitialized ==
  /\ outcome = "returned"
  /\ ret.hasExpStatus
  /\ ret.phase = "initialized"
  /\ ret.verdict = "Awaited"

\* C19: whenever the resolved verdict is Awaited and the engine's phase is
\* still initialized after the full wait window, the returned result is
\* tagged as the stuck condition with diagnostics attached and is not reported
\* as a final failure; this holds for every experiment type.
C19_StuckTaggedForEveryType ==
  (AwaitedWhileInitialized /\ wOutcome = "returned") =>
     /\ wret.stuck \/ wret.tagged
     /\ VerdictOf(wret) \notin {"Fail", "Failed"}


(***************************************************************************)
(* POST /chaos-test of the earlier revision of index.ts: the result is     *)
(* answered as completed or as partial, a failure is classified by the     *)
(* text of its message                                                     *)
(***************************************************************************)
\* extractChaosResultInfo of the earlier revision: valid only when a verdict
\* was read from status.experimentStatus or from status
extractChaosResultInfoV1(r) ==
  IF r.kind = "null" \/ ~r.hasStatus
    THEN [verdict |-> "Unknown", failStep |-> "None", valid |-> FALSE]
    ELSE IF r.hasExpStatus /\ r.verdict # NONE
      THEN [verdict |-> r.verdict,
            failStep |-> IF r.failStep = NONE THEN "None" ELSE r.failStep,
            valid |-> TRUE]
      ELSE IF r.statusVerdict # NONE
        THEN [verdict |-> r.statusVerdict,
              failStep |-> IF r.failStep = NONE THEN "None" ELSE r.failStep,
              valid |-> TRUE]
        ELSE [verdict |-> "Awaited", failStep |-> "None", valid |-> FALSE]

\* the texts the catch looks for with error.message.includes; a message is
\* modelled as the set of these texts it includes
ErrorMarkers ==
  {"No Kubernetes manifest files", "No deployments found",
   "Failed to clone repository", "git clone", "kubernetes", "kind ", "deploy",
   "chaos", "litmus"}

\* the if / else if chain of the catch: the first text found decides
ClassifyError(msg) ==
  IF "No Kubernetes manifest files" \in msg
    THEN [statusCode |-> 400, stage |-> "manifest detection"]
  ELSE IF "No deployments found" \in msg
    THEN [statusCode |-> 400, stage |-> "target deployment detection"]
  ELSE IF "Failed to clone repository" \in msg \/ "git clone" \in msg
    THEN [statusCode |-> 500, stage |-> "repository cloning"]
  ELSE IF "kubernetes" \in msg \/ "kind " \in msg
    THEN [statusCode |-> 500, stage |-> "kubernetes setup"]
  ELSE IF "deploy" \in msg
    THEN [statusCode |-> 500, stage |-> "application deployment"]
  ELSE IF "chaos" \in msg \/ "litmus" \in msg
    THEN [statusCode |-> 500, stage |-> "chaos execution"]
  ELSE [statusCode |-> 500, stage |-> "unknown"]

\* res.status(statusCode).json({ success: false, error, details, stage });
\* raisedBy keeps the stage whose call threw, which the handler does not know
ErrorReply(msg, raisedBy) ==
  [sent |-> TRUE, success |-> FALSE, statusCode |-> ClassifyError(msg).statusCode,
   message |-> "error", verdict |-> NONE, failStep |-> NONE,
   experimentStatus |-> NONE, stage |-> ClassifyError(msg).stage,
   raisedBy |-> raisedBy]

\* the messages a throwing run carries.  An exec failure reads
\* "Command failed: <command>", so the text of the command is part of it:
\*   Failed to verify chaos experiment: ...
\*   Failed to create LitmusChaos service account: ... kubectl apply of the
\*     account, the role (apiGroups litmuschaos.io, resources deployments)
\*     and the binding ...
\*   Failed to verify LitmusChaos service account creation: ... kubectl get
\*     serviceaccount litmus-admin ...
RunErrorMessages(failure) ==
  IF failure = "serviceAccount"
    THEN {{"deploy", "chaos", "litmus"}, {"litmus"}}
    ELSE {{"chaos"}}

\* reading resultsJson.status of null throws a TypeError, whose message
\* includes none of the texts
TypeErrorMessage == {}

\* what the handler answers for the value runChaosExperimentByType returned
ResultReply(r) ==
  LET info == extractChaosResultInfoV1(r)
  IN  IF info.valid
        THEN [sent |-> TRUE, success |-> TRUE, statusCode |-> 200,
              message |-> "Chaos test completed successfully",
              verdict |-> info.verdict, failStep |-> info.failStep,
              experimentStatus |-> "Completed", stage |-> NONE, raisedBy |-> NONE]
      ELSE IF r.kind = "null"
        THEN ErrorReply(TypeErrorMessage, NONE)
      ELSE [sent |-> TRUE, success |-> TRUE, statusCode |-> 200,
            message |-> "Chaos test executed but results may be incomplete",
            verdict |-> "Unknown",
            failStep |-> IF r.hasStatus /\ r.failStep # NONE THEN r.failStep
                         ELSE "Unknown",
            experimentStatus |-> "Completed with partial results",
            stage |-> NONE, raisedBy |-> NONE]

\* the handler after runChaosExperimentByType returned or threw
ChaosTestReply ==
  /\ pc = "done"
  /\ ~reply.sent
  /\ ~response.sent
  /\ IF wOutcome = "thrown"
       THEN \E msg \in RunErrorMessages(setupFailure) :
              reply' = ErrorReply(msg, "chaos execution")
       ELSE reply' = ResultReply(wret)
  /\ UNCHANGED runVars
  /\ UNCHANGED recVars
  /\ UNCHANGED setupVars

NextHttp ==
  \/ Next
  \/ ChaosTestReply

\* a request served by the earlier revision of the handler
SpecHttp == InitFair /\ [][NextHttp]_vars

\* the run returned and no verdict can be read from what it returned
NoVerdictReturned ==
  /\ wOutcome = "returned"
  /\ ~extractChaosResultInfoV1(wret).valid

\* C21: when an experiment completes but the result carries no definitive
\* verdict, POST /chaos-test answers with success = true and the status
\* "Completed with partial results", never with an error response.
C21_NoVerdictAnsweredAsPartial ==
  (reply.sent /\ NoVerdictReturned) =>
    /\ reply.success
    /\ reply.experimentStatus = "Completed with partial results"
    /\ reply.stage = NONE


(***************************************************************************)
(* The stages of the handler before the run: clone, cluster, deployment,   *)
(* LitmusChaos setup, target detection, and the catch that classifies      *)
(***************************************************************************)
\* cloneRepository: git clone is not guarded, the exec failure reads
\* "Command failed: git clone <url> <dir>"
CloneErrorMessages == {{"git clone"}}

\* setupKubernetesCluster: "Docker permission denied ... (e.g., sudo kind get
\* clusters)" or "Failed to setup Kubernetes cluster: Command failed: kind ..."
ClusterErrorMessages == {{"kind "}}

\* deployApplication(repoDir) of the handler: only the fallback throws,
\* "Failed to deploy fallback application: ..."
DeployErrorMessages == {{"deploy"}}

\* setupLitmusChaos.  Before the installer runs (instPc "idle"):
\*   Failed to install LitmusChaos operator: ... the manual operator manifest
\*     (chaos-operator, namespace litmus, resources deployments), or the
\*     kubectl apply of the service account litmus-admin
\*   Failed to install LitmusChaos CRDs: ... the CRD manifest (litmuschaos.io,
\*     x-kubernetes-preserve-unknown-fields)
\* and after it:
\*   Failed to install pod-delete experiment: Failed to install pod-delete
\*     experiment with any schema format
\*   LitmusChaos installation verification failed. The required components
\*     are not properly installed.
LitmusErrorMessages(instPc) ==
  IF instPc = "idle"
    THEN {{"deploy", "chaos", "litmus"}, {"litmus"},
          {"kubernetes", "chaos", "litmus"}, {}}
    ELSE {{}}

\* findTargetDeployment: "Failed to find target deployment: " followed by
\* "Command failed: kubectl get deployments --all-namespaces" or by
\* "Failed to deploy fallback application: ..."
FindErrorMessages == {{"deploy"}}

\* the handler calls deployApplication(repoDir) of chaos/core.ts without options
HandlerCall ==
  /\ dep.rev = "part005"
  /\ dep.namespace = "default"
  /\ dep.strategy = NONE

\* steps 1 and 2 of the handler, cloneRepository and setupKubernetesCluster:
\* a throw of either ends the request before anything is deployed
CloneOrClusterFails ==
  /\ dep.pc = "deploy"
  /\ dep.deploy = "idle"
  /\ HandlerCall
  /\ ~reply.sent
  /\ \/ \E msg \in CloneErrorMessages :
          reply' = ErrorReply(msg, "repository cloning")
     \/ \E msg \in ClusterErrorMessages :
          reply' = ErrorReply(msg, "kubernetes setup")
  /\ dep' = [dep EXCEPT !.pc = "aborted"]
  /\ UNCHANGED <<inst, litmus, conc>>
  /\ RunIdle
  /\ UNCHANGED <<now, recVars>>

\* catch of the handler after step 3, 4 or 5 threw
ChaosTestCatch ==
  /\ HandlerCall
  /\ ~reply.sent
  /\ \/ /\ dep.pc = "failed"
        /\ dep.deploy = "thrown"
        /\ \E msg \in DeployErrorMessages :
             reply' = ErrorReply(msg, "application deployment")
     \/ /\ dep.pc = "failed"
        /\ dep.deploy # "thrown"
        /\ \E msg \in LitmusErrorMessages(inst.pc) :
             reply' = ErrorReply(msg, "chaos execution")
     \/ /\ dep.pc = "done"
        /\ dep.find = "thrown"
        /\ \E msg \in FindErrorMessages :
             reply' = ErrorReply(msg, "target deployment detection")
  /\ UNCHANGED setupVars
  /\ RunIdle
  /\ UNCHANGED <<now, recVars>>

NextPipeline ==
  \/ NextSetup
  \/ CloneOrClusterFails
  \/ ChaosTestCatch

\* the stages of one request, up to the call of the experiment
SpecPipeline == InitSetup /\ [][NextPipeline]_vars

\* C22: a failure raised by a pipeline stage is reported under the stage
\* that raised it (target detection, repository cloning, cluster setup,
\* deployment, chaos installation or execution); no stage's failure is
\* classified under a different stage.
C22_FailureReportedUnderItsStage ==
  (reply.sent /\ reply.raisedBy # NONE) => reply.stage = reply.raisedBy


\* C23: the result returned by a run was produced by the engine that this
\* run created; result resolution never returns a result object that belongs
\* to another engine (an earlier run against the same workload, or a run of
\* a different experiment).
C23_ResultBelongsToOwnEngine ==
  outcome = "returned" => ret.owner # "other"


\* C24: when the record's diagnostics show the service account missing, or
\* present but lacking the create-pods or access-nodes permission,
\* recoverStuckExperiment re-applies the account with its role and binding
\* before the engine is deleted, so that after step 1 the account exists
\* with the fixed permission set.
C24_AccountFixedAfterStepOne ==
  (rec.saNeeded /\ ~rec.saFailed /\ rec.pc \in {"step2", "step3", "returned"}) =>
    /\ cluster.saExists
    /\ cluster.canCreatePods
    /\ cluster.canAccessNodes


\* C25: recovery acts on current cluster state, not on the detection
\* snapshot: recoverStuckExperiment force-deletes an engine only if that
\* engine is still in phase initialized at the time of the delete, so an
\* engine that progressed between detection and recovery is not deleted.
C25_DeletesOnlyInitializedEngines ==
  rec.deletedPhase # NONE => rec.deletedPhase = "initialized"


\* C26: execution-pod discovery tries the candidate selectors in their fixed
\* list order within each attempt, stops at the first selector that returns
\* a pod (no later selector, no further attempt), makes at most 10 attempts
\* with the same 2-second pause between attempts, and a run in which no pod
\* is ever found continues to the wait and to result resolution instead of
\* failing.
C26_PodDiscoveryOrderBoundAndPause ==
  [][pc = "pollPod" =>
       /\ poll.retries < maxRetries
       /\ poll.sel < NumSelectors
       /\ poll.waited = poll.retries * PollPauseMs
       /\ pc' \in {"pollPod", "podSearch", "sleep"}
       /\ poll'.found => pc' = "sleep"
       /\ pc' = "pollPod" =>
            \/ /\ poll'.sel = poll.sel + 1
               /\ poll'.retries = poll.retries
               /\ poll'.waited = poll.waited
            \/ /\ poll.sel + 1 = NumSelectors
               /\ poll'.sel = 0
               /\ poll'.retries = poll.retries + 1
               /\ poll'.waited = poll.waited + PollPauseMs
       /\ outcome' = "running"
       /\ setupFailure' = setupFailure]_vars

\* the last selector of the tenth attempt is about to be queried, and no
\* pod was found by any query before it
C26_Witness ==
  /\ pc = "pollPod"
  /\ poll.retries = maxRetries - 1
  /\ poll.sel = NumSelectors - 1
  /\ NumSelectors > 1
  /\ poll.waited = (maxRetries - 1) * PollPauseMs


\* positions of the relaxed-validation applies in the log of the run
RelaxedApplies == {k \in DOMAIN applyLog : applyLog[k].mode = "relaxed"}

\* the relaxed apply was rejected as well
RelaxedRejected == \E k \in RelaxedApplies : ~applyLog[k].ok

\* C27: the relaxed-validation apply is issued only after the strict apply
\* of the same manifest was rejected, and at most once per run; if the
\* relaxed apply is rejected too, the run performs no polling, sleeping or
\* result resolution and returns a structured error result.
C27_RelaxedApplyOnceAfterStrictRejected ==
  /\ Cardinality(RelaxedApplies) <= 1
  /\ \A k \in RelaxedApplies :
       /\ k > 1
       /\ applyLog[k - 1].mode = "strict"
       /\ ~applyLog[k - 1].ok
       /\ applyLog[k - 1].manifest = applyLog[k].manifest
  /\ RelaxedRejected =>
       /\ pc \in {"catch", "wrapPost", "done"}
       /\ poll = NoPoll
       /\ params.slept = 0
       /\ res = NoRes
       /\ outcome \in {"running", "returned"}
       /\ outcome = "returned" => ret.kind = "error" /\ ret.src = "error"

\* both applies were rejected and the run has returned
C27_Witness ==
  /\ RelaxedRejected
  /\ outcome = "returned"
  /\ ret.kind = "error"


\* the step in which the recovery wait gives up: the single kubectl wait of
\* the first revision and of docker.ts, the last iteration of the loop of
\* the later revision
RecoveryWaitEnds ==
  \/ pc = "recoveryWait"
  \/ pc = "recoveryB" /\ expB.recoveryRetries + 1 = maxRecoveryRetries

\* the pods were not ready when the wait ended; the first revision leaves no
\* other trace of it than the diagnostic itself
RecoveryIncomplete ==
  \/ pc = "recoveryWait" /\ resultsJson'.recoveryInfo = "Incomplete"
  \/ pc = "recoveryB" /\ expB'.recoveryRetries = maxRecoveryRetries

\* C28: when the target pods do not become ready within the recovery wait,
\* the run still returns its result, the resolved verdict and fail step are
\* left unchanged, and the incomplete recovery is recorded in the result as
\* a diagnostic.
C28_FailedRecoveryOnlyAddsDiagnostic ==
  [][(RecoveryWaitEnds /\ RecoveryIncomplete) =>
       /\ outcome' = "returned"
       /\ ret'.kind = resultsJson.kind
       /\ ret'.verdict = resultsJson.verdict
       /\ ret'.statusVerdict = resultsJson.statusVerdict
       /\ ret'.failStep = resultsJson.failStep
       /\ ret'.recoveryInfo = "Incomplete"]_vars


\* how often a file occurs in a list of applications
Occurrences(list, file) == Cardinality({i \in DOMAIN list : list[i] = file})

\* C29: in parallel-apply mode every manifest file is applied exactly once,
\* the call returns only after all applications have finished, and the
\* joined outcome does not depend on the order in which the applications
\* complete: manifestsApplied equals the number of files whose apply
\* succeeded, errors has one entry per file whose apply failed, and
\* appliedFiles lists the successful files in input order.
C29_ParallelJoinIndependentOfCompletionOrder ==
  (dep.strategy = "parallel" /\ dep.deploy = "returned") =>
    /\ \A file \in FilesOf(dep.files) :
         /\ Occurrences(dep.attempts, file) = 1
         /\ Cardinality({k \in DOMAIN dep.completion :
                           dep.completion[k].file = file}) = 1
    /\ Len(dep.attempts) = Len(dep.files)
    /\ Len(dep.completion) = Len(dep.files)
    /\ dep.result.manifestsApplied =
         Cardinality(SettledFiles(dep.completion, TRUE))
    /\ dep.result.errors = Keep(dep.files, SettledFiles(dep.completion, FALSE))
    /\ Len(dep.result.errors) = Cardinality(SettledFiles(dep.completion, FALSE))
    /\ dep.result.appliedFiles = Keep(dep.files, SettledFiles(dep.completion, TRUE))

\* three files applied in parallel: the last one settled first, the first
\* one failed, and the call returned
C29_Witness ==
  /\ dep.strategy = "parallel"
  /\ dep.deploy = "returned"
  /\ Len(dep.files) = 3
  /\ dep.completion[1].file = dep.files[3]
  /\ dep.completion[2].file = dep.files[2]
  /\ ~dep.completion[3].success
  /\ dep.result.appliedFiles = <<dep.files[2], dep.files[3]>>
  /\ dep.result.errors = <<dep.files[1]>>


\* C30: for every deployment result of plain-file mode,
\* manifestsApplied + errors.length = totalManifests,
\* manifestsApplied = appliedFiles.length, and success is true exactly when
\* manifestsApplied > 0.
C30_ResultCountsAgree ==
  (dep.pc = "deployed" /\ dep.deploy = "returned") =>
    /\ dep.result.manifestsApplied + Len(dep.result.errors)
         = dep.result.totalManifests
    /\ dep.result.manifestsApplied = Len(dep.result.appliedFiles)
    /\ dep.result.success = (dep.result.manifestsApplied > 0)

\* a result of three files of which some were applied and some failed
C30_Witness ==
  /\ dep.pc = "deployed"
  /\ dep.deploy = "returned"
  /\ ~dep.noFiles
  /\ dep.result.totalManifests = 3
  /\ dep.result.manifestsApplied = 2
  /\ Len(dep.result.errors) = 1


\* ---------------------------------------------------------------------------
\* The installers of experiment definitions together: installPodDeleteExperiment
\* inside setupLitmusChaos, and installIOChaosExperiment before a run of the
\* typed wrapper
InitInstall ==
  \/ InitSetup
  \/ InitRun({"litmusA", "docker"})

NextInstall ==
  \/ NextSetup
  \/ NextA

SpecInstall == InitInstall /\ [][NextInstall]_vars

\* a candidate whose apply returned and whose read-back failed
AppliedUnread(k) == inst.applied[k].applied /\ ~inst.applied[k].readBack

PrimaryFormats == {"chaosServiceAccount", "appinfo", "componentsRunner", "default"}

\* C33: the later revision applies first one manifest whose format follows
\* from the detected schema by the precedence chaosServiceAccount, appinfo,
\* components.runner, default; no later apply uses one of these formats, and
\* a schema that could not be read gives the default format
C33_FormatByFixedPrecedence ==
  impl = "litmusB" /\ applyLog # <<>> =>
    LET f == applyLog[1].manifest.format IN
    /\ applyLog[1].mode = "strict"
    /\ f \in PrimaryFormats
    /\ build.hasSAField => f = "chaosServiceAccount"
    /\ ~build.hasSAField /\ build.usesAppinfo => f = "appinfo"
    /\ ~build.hasSAField /\ ~build.usesAppinfo /\ build.usesComponentsRunner =>
         f = "componentsRunner"
    /\ ~build.hasSAField /\ ~build.usesAppinfo /\ ~build.usesComponentsRunner =>
         f = "default"
    /\ ~build.schemaRead => f = "default"
    /\ \A k \in DOMAIN applyLog : k > 1 => applyLog[k].manifest.format \notin PrimaryFormats

\* a schema with both chaosServiceAccount and appinfo, whose primary apply
\* was rejected and followed by a fallback
C33_Witness ==
  /\ impl = "litmusB"
  /\ build.hasSAField /\ build.usesAppinfo
  /\ Len(applyLog) >= 2
  /\ applyLog[1].manifest.format = "chaosServiceAccount"

\* the primary apply after a schema that could not be read
C33_WitnessUnread ==
  /\ impl = "litmusB"
  /\ ~build.schemaRead
  /\ Len(applyLog) = 1
  /\ applyLog[1].manifest.format = "default"


\* ---------------------------------------------------------------------------
\* setupLitmusChaos called on its own, up to MaxSetupCalls times on one cluster

MaxSetupCalls == 2

LitmusClusters ==
  [namespace : BOOLEAN, operatorPods : BOOLEAN, crds : BOOLEAN,
   podDelete : {"absent", "invalid", "valid"}]

\* the probes of setupLitmusChaos, each made only when the one before it
\* succeeded: kubectl get namespace litmus, kubectl get pods -n litmus
\* -l name=chaos-operator, the three kubectl get crd, kubectl get
\* chaosexperiment pod-delete
LitmusProbes(c) ==
  LET operator == c.namespace /\ c.operatorPods
      crds == operator /\ c.crds
  IN  [operator |-> IF ~c.namespace THEN "unprobed"
                    ELSE IF c.operatorPods THEN "present" ELSE "missing",
       crds |-> IF ~operator THEN "unprobed"
                ELSE IF c.crds THEN "present" ELSE "missing",
       podDelete |-> IF ~crds THEN "unprobed"
                     ELSE IF c.podDelete # "absent" THEN "present" ELSE "missing"]

\* one call of setupLitmusChaos on cluster c. operatorOk, accountOk, crdsOk and
\* definitionOk are the outcomes of the applies; podsAppear tells whether the
\* operator deployment has a pod afterwards (a kubectl wait that fails is only
\* logged). The operator and its service account are applied when no operator
\* pod was found; unless the setup was found complete the CRDs are applied and
\* installPodDeleteExperiment is called, which applies a definition unless a
\* valid one exists; the final reads throw when a CRD or pod-delete is missing
setupLitmusChaos(c, operatorOk, podsAppear, accountOk, crdsOk, definitionOk) ==
  LET probed == LitmusProbes(c)
      isLitmusSetupComplete == probed.podDelete = "present"
      litmusAlreadyInstalled == probed.operator = "present"
      installOperator == ~isLitmusSetupComplete /\ ~litmusAlreadyInstalled
      operatorThrows == installOperator /\ ~(operatorOk /\ accountOk)
      c1 == IF installOperator /\ operatorOk
              THEN [c EXCEPT !.namespace = TRUE, !.operatorPods = @ \/ podsAppear]
              ELSE c
      installCrds == ~isLitmusSetupComplete /\ ~operatorThrows
      c2 == IF installCrds /\ crdsOk THEN [c1 EXCEPT !.crds = TRUE] ELSE c1
      installDefinition == installCrds /\ crdsOk /\ c2.podDelete # "valid"
      c3 == IF installDefinition /\ definitionOk
              THEN [c2 EXCEPT !.podDelete = "valid"] ELSE c2
      thrown == \/ operatorThrows
                \/ installCrds /\ ~crdsOk
                \/ installDefinition /\ ~definitionOk
                \/ ~c3.crds
                \/ c3.podDelete = "absent"
  IN  [cluster |-> c3,
       probed |-> probed,
       applied |-> (IF installOperator THEN {"operator"} ELSE {})
                     \cup (IF installOperator /\ operatorOk THEN {"serviceAccount"} ELSE {})
                     \cup (IF installCrds THEN {"crds"} ELSE {})
                     \cup (IF installDefinition THEN {"podDelete"} ELSE {}),
       outcome |-> IF thrown THEN "thrown" ELSE "returned"]

InitLitmus ==
  /\ RunAtRest
  /\ dep = IdleDep
  /\ inst = IdleInst
  /\ conc = IdleConc
  /\ \E c \in LitmusClusters :
       /\ c.operatorPods => c.namespace
       /\ litmus = [IdleLitmus EXCEPT !.pc = "ready", !.cluster = c]

\* a call of setupLitmusChaos from its first probe to its return or throw
CallSetupLitmusChaos ==
  /\ litmus.pc = "ready"
  /\ litmus.calls < MaxSetupCalls
  /\ \E operatorOk \in BOOLEAN, podsAppear \in BOOLEAN, accountOk \in BOOLEAN,
        crdsOk \in BOOLEAN, definitionOk \in BOOLEAN :
       LET r == setupLitmusChaos(litmus.cluster, operatorOk, podsAppear, accountOk,
                                 crdsOk, definitionOk)
       IN  litmus' = [litmus EXCEPT
                        !.calls = @ + 1,
                        !.cluster = r.cluster,
                        !.probed = r.probed,
                        !.applied = r.applied,
                        !.outcome = r.outcome,
                        !.first = IF litmus.calls = 0 THEN r.outcome ELSE @]
  /\ RunIdle
  /\ UNCHANGED <<now, recVars>>
  /\ UNCHANGED <<dep, inst, conc>>
  /\ UNCHANGED reply

NextLitmus == CallSetupLitmusChaos

SpecLitmus == InitLitmus /\ [][NextLitmus]_vars

\* the step that installs what a probe looked for
InstallStepFor ==
  [operator |-> "operator", crds |-> "crds", podDelete |-> "podDelete"]

\* a call that found the namespace, the operator, the CRDs and pod-delete
\* applies nothing
CompleteSetupAppliesNothing ==
  litmus.calls > 0 /\ litmus.probed.podDelete = "present" => litmus.applied = {}

\* C34: a call applies nothing that one of its probes found present, a call
\* whose probes found everything applies nothing at all, and the call after
\* a first call that returned applies nothing
C34_InstallsOnlyWhatIsMissing ==
  /\ \A p \in DOMAIN InstallStepFor :
       InstallStepFor[p] \in litmus.applied => litmus.probed[p] # "present"
  /\ CompleteSetupAppliesNothing
  /\ litmus.calls = 2 /\ litmus.first = "returned" => litmus.applied = {}


\* ---------------------------------------------------------------------------
\* Two runs of runChaosExperiment in flight together in one namespace

\* "litmus": chaos/litmus.ts and docker.ts, which stamp the name with Date.now();
\* "chaos": services/chaos.ts, which does not
NameRevisions == {"litmus", "chaos"}

Workloads == {"api", "web"}

NumRuns == 2

\* the metadata.name of the engine a run applies
engineNameOf(rev, workload, timestamp) ==
  IF rev = "chaos"
    THEN [workload |-> workload, stamped |-> FALSE, timestamp |-> 0]
    ELSE [workload |-> workload, stamped |-> TRUE, timestamp |-> timestamp]

InitConc ==
  /\ RunAtRest
  /\ dep = IdleDep
  /\ inst = IdleInst
  /\ litmus = IdleLitmus
  /\ \E rev \in NameRevisions, targets \in [1..NumRuns -> Workloads] :
       conc = [clock |-> T0,
               runs |-> [i \in 1..NumRuns |->
                           [rev |-> rev, targetDeployment |-> targets[i],
                            pc |-> "start", name |-> NoName,
                            overwrote |-> FALSE, read |-> 0]],
               engines |-> {}]

ConcIdle ==
  /\ RunIdle
  /\ UNCHANGED <<now, recVars>>
  /\ UNCHANGED <<dep, inst, litmus>>
  /\ UNCHANGED reply

\* a millisecond passes
ConcTick ==
  /\ conc.clock < T0 + MaxTicks
  /\ \E i \in DOMAIN conc.runs : conc.runs[i].pc # "done"
  /\ conc' = [conc EXCEPT !.clock = @ + 1]
  /\ ConcIdle

\* const timestamp = Date.now(); const engineName = ...
ConcName(i) ==
  /\ conc.runs[i].pc = "start"
  /\ conc' = [conc EXCEPT
                !.runs[i].name = engineNameOf(conc.runs[i].rev,
                                              conc.runs[i].targetDeployment, conc.clock),
                !.runs[i].pc = "named"]
  /\ ConcIdle

\* kubectl apply -f manifestPath: creates the engine, or updates the engine
\* that already has this name
ConcApply(i) ==
  /\ conc.runs[i].pc = "named"
  /\ LET name == conc.runs[i].name IN
     conc' = [conc EXCEPT
                !.engines = {e \in @ : e.name # name} \cup {[name |-> name, owner |-> i]},
                !.runs[i].overwrote = \E e \in conc.engines :
                                         e.name = name /\ e.owner # i,
                !.runs[i].pc = "applied"]
  /\ ConcIdle

\* kubectl get chaosengine <engineName>: the engine of that name, whoever
\* applied it last
ConcRead(i) ==
  /\ conc.runs[i].pc = "applied"
  /\ \E e \in conc.engines :
       /\ e.name = conc.runs[i].name
       /\ conc' = [conc EXCEPT !.runs[i].read = e.owner, !.runs[i].pc = "done"]
  /\ ConcIdle

NextConc ==
  \/ ConcTick
  \/ \E i \in 1..NumRuns : ConcName(i) \/ ConcApply(i) \/ ConcRead(i)

SpecConc == InitConc /\ [][NextConc]_vars

\* C35: two runs never hold the same engine name, no run applies over the
\* engine of another run, and no run reads an engine another run applied
C35_RunsUseDistinctEngineNames ==
  \A i \in DOMAIN conc.runs :
    /\ ~conc.runs[i].overwrote
    /\ conc.runs[i].read \in {0, i}
    /\ \A j \in DOMAIN conc.runs :
         i # j /\ conc.runs[i].pc # "start" /\ conc.runs[j].pc # "start" =>
           conc.runs[i].name # conc.runs[j].name


\* the experiment types that act on a node or on its IO
NodeOrIOTypes == {"node-io-stress", "disk-fill"}

\* C36: the first revision sleeps for the duration plus a buffer fixed by the
\* experiment type, and the buffer of node-io-stress and of disk-fill is
\* strictly longer than the buffer of the other types
C36_NodeAndIOTypesWaitLonger ==
  impl = "litmusA" /\ params.slept > 0 =>
    LET buffer == params.slept - duration IN
    /\ buffer \in {BufferDefault, BufferNodeIO}
    /\ chaosType \notin NodeOrIOTypes => buffer = BufferDefault
    /\ chaosType \in NodeOrIOTypes => buffer > BufferDefault


\* C37: a result of the run whose verdict is Pass or Fail comes back from
\* runNodeIOStressExperiment with the same verdict and the same fail step,
\* whatever its engine phase and stuck flag
C37_WrapperKeepsDefinitiveVerdict ==
  wrapper = "enhanced" /\ wOutcome = "returned" /\ VerdictOf(ret) \in {"Pass", "Fail"} =>
    /\ VerdictOf(wret) = VerdictOf(ret)
    /\ wret.verdict = ret.verdict
    /\ wret.statusVerdict = ret.statusVerdict
    /\ wret.failStep = ret.failStep

\* a result with verdict Fail that looks stuck: the wrapper adds its
\* diagnostics and leaves the verdict
C37_Witness ==
  /\ wrapper = "enhanced"
  /\ wOutcome = "returned"
  /\ VerdictOf(ret) = "Fail"
  /\ LooksStuck(ret)
  /\ wret.tagged
  /\ wret.verdict = "Fail"


\* C38: ensureLitmusChaosServiceAccount returns normally only when the
\* account exists in the namespace, and it throws when its apply fails or
\* when the read-back after the apply fails
C38_ReturnsOnlyWithAccountInPlace ==
  rec.saNeeded =>
    /\ rec.saPath \in {"found", "created", "applyFailed", "verifyFailed"}
    /\ ~rec.saFailed => cluster.saExists /\ rec.saPath \in {"found", "created"}
    /\ rec.saPath \in {"applyFailed", "verifyFailed"} =>
         rec.saFailed /\ rec.pc = "returned" /\ ~rec.success

\* the account was missing, was applied and read back, and the recovery
\* went on
C38_Witness ==
  /\ rec.saNeeded
  /\ rec.saPath = "created"
  /\ rec.pc = "step2"
  /\ cluster.saExists

\* the apply failed on a missing account and the function threw
C38_WitnessThrown ==
  /\ rec.saNeeded
  /\ rec.saPath = "applyFailed"
  /\ rec.saFailed
  /\ ~cluster.saExists

====
